---- MODULE Spec2Model ----
(***************************************************************************)
(* Fluxion AI backend: the multi-tenant inventory ledger, its database     *)
(* access layer (a pg connection pool used through pool.query) and the     *)
(* tenant resolver.                                                        *)
(*                                                                         *)
(* The relational store is modelled at statement granularity.  Every       *)
(* `await query(...)` of the code is one step: the statement runs on the   *)
(* pooled connection the request was handed, the connection is released,   *)
(* and the continuation of the request asks the pool for a connection for  *)
(* its next statement.  BEGIN / COMMIT / ROLLBACK act on the connection    *)
(* they happen to run on.                                                  *)
(***************************************************************************)
EXTENDS Integers, Sequences, FiniteSets, TLC

VARIABLES
    dbMax,      \* dbConfig.max: size limit of the connection pool
    stock,      \* committed products.current_stock, per schema and product id
    movs,       \* committed rows of inventory_movements (all schemas)
    nextId,     \* the SERIAL sequence of inventory_movements.id
    updSeen,    \* calls whose UPDATE of current_stock is committed
    ctx,        \* per connection: "none" | "open" | "aborted" transaction
    pstock,     \* per connection: uncommitted writes to current_stock
    pmovs,      \* per connection: uncommitted inventory_movements rows
    pool,       \* the pg pool: idle stack, waiting requests, held connections
    req,        \* per request slot: the running operation and its locals
    ncalls,     \* number of operations started so far
    pre,        \* per request slot: what the slot saw when its call began
    padmin,     \* per connection: uncommitted registry writes and schema DDL,
                \* and the schemas whose tables the open transaction has locked
    registry,   \* public.tenants: per tenant code "absent" | "inactive" | "active"
    schemas,    \* the schemas that exist in the database
    tables,     \* per schema: the tables and indexes it holds
    prodattr,   \* per schema and product: active, min and max stock threshold
    insights,   \* committed rows of insights (all schemas)
    sales,      \* committed rows of sales with their sale_details (all schemas)
    http,       \* the HTTP request in front of the tenant middleware
    resolved    \* what the middleware and the service made of it

vars == <<dbMax, stock, movs, nextId, updSeen, ctx, pstock, pmovs, pool, req,
          ncalls, pre, padmin, registry, schemas, tables, prodattr, insights,
          sales, http, resolved>>

ledgerVars == <<dbMax, prodattr, sales, stock, movs, nextId, updSeen, ctx, pstock, pmovs, pool,
                req, ncalls, pre, padmin>>

webVars == <<registry, schemas, tables, insights, http, resolved>>

-----------------------------------------------------------------------------
(* Bounds of the model *)

MaxPool == 2        \* largest pool size explored
MaxCalls == 2       \* operations started in one behaviour
MaxBusyCalls == 3   \* operations started in one behaviour of the longer scenarios
MaxQty == 2         \* largest quantity / external stock submitted
MaxItems == 2       \* longest sync_data array submitted
InitialStock == 2   \* current_stock every product is created with
MaxCost == 2        \* largest cost_price of a product, in cents
MaxMovements == 3   \* longest movement history a valuation runs on

Tenants == {"tenant_a", "tenant_b"}
TenantCodes == {"a", "b"}       \* tenant codes with a well-formed name
Products == {1, 2}              \* ids present in products of every schema
ProductIds == {1, 2, 3}         \* ids a caller may submit (3 is in no table)
Costs == 0..MaxCost              \* cost_price values, in cents
Req == {1, 2, 3}                   \* request slots (requests in flight)
Conns == 1..MaxPool
CallIds == 1..(MaxBusyCalls + 1)

MovementTypes == {"entrada", "salida", "ajuste", "sincronizacion", "transferencia"}
\* reference_type_enum; any other value makes the INSERT fail
ReferenceTypes == {"venta", "compra", "ajuste", "sync"}

-----------------------------------------------------------------------------
(* database/tenant-base-schema.sql, statement by statement, and what       *)
(* createTenantSchema makes of it                                          *)

TableNames ==
    <<"products", "clients", "sales", "sale_details", "inventory_movements",
      "insights">>

IndexNames ==
    <<"idx_products_sku", "idx_products_category", "idx_products_active",
      "idx_clients_client_code", "idx_clients_active",
      "idx_sales_sale_number", "idx_sales_client_id", "idx_sales_date",
      "idx_sales_payment_status", "idx_sale_details_sale_id",
      "idx_sale_details_product_id", "idx_inventory_product_id",
      "idx_inventory_movement_type", "idx_inventory_movement_date",
      "idx_insights_type", "idx_insights_priority", "idx_insights_status",
      "idx_insights_expires_at">>

\* one statement of a script: CREATE TABLE / CREATE INDEX / COMMENT ON TABLE,
\* with or without IF NOT EXISTS, on a relation; malformed once a rewrite
\* has broken its syntax
Statement(kind, guarded, name) ==
    [stmt |-> kind, ifNotExists |-> guarded, name |-> name, malformed |-> FALSE]

TenantBaseSchema ==
    [i \in 1..Len(TableNames) |-> Statement("CREATE TABLE", FALSE, TableNames[i])]
    \o [i \in 1..Len(IndexNames) |-> Statement("CREATE INDEX", FALSE, IndexNames[i])]
    \o [i \in 1..Len(TableNames) |-> Statement("COMMENT ON TABLE", FALSE, TableNames[i])]

\* the relations a provisioned schema holds
BaseRelations ==
    {TableNames[i] : i \in 1..Len(TableNames)}
        \cup {IndexNames[i] : i \in 1..Len(IndexNames)}

\* the chain of .replace() calls of createTenantSchema on one statement:
\* CREATE TABLE IF NOT EXISTS x is rewritten twice (the second pattern,
\* CREATE TABLE, matches it again) and no longer parses; CREATE TABLE x gets
\* the schema prefix and stays unguarded; CREATE INDEX gains IF NOT EXISTS
AdaptStatement(s) ==
    IF s.stmt = "CREATE TABLE"
    THEN [s EXCEPT !.malformed = s.ifNotExists]
    ELSE IF s.stmt = "CREATE INDEX"
    THEN [s EXCEPT !.malformed = s.ifNotExists, !.ifNotExists = TRUE]
    ELSE s

AdaptScript(script) == [i \in 1..Len(script) |-> AdaptStatement(script[i])]

\* one statement against the relations of the schema: an unguarded CREATE
\* of a relation that exists raises an error
StatementError(s, rels) ==
    \/ s.malformed
    \/ s.stmt \in {"CREATE TABLE", "CREATE INDEX"} /\ ~s.ifNotExists /\ s.name \in rels

StatementEffect(s, rels) ==
    IF s.stmt \in {"CREATE TABLE", "CREATE INDEX"} THEN rels \cup {s.name}
    ELSE rels

RECURSIVE RunFrom(_, _, _)
RunFrom(script, i, rels) ==
    IF i > Len(script) THEN [ok |-> TRUE, rels |-> rels]
    ELSE IF StatementError(script[i], rels) THEN [ok |-> FALSE, rels |-> rels]
    ELSE RunFrom(script, i + 1, StatementEffect(script[i], rels))

\* query(schemaSQL): the statements of one query string run as one
\* transaction; an error undoes those before it
RunScript(script, rels) ==
    LET res == RunFrom(script, 1, rels)
    IN IF res.ok THEN res ELSE [ok |-> FALSE, rels |-> rels]

-----------------------------------------------------------------------------
(* Helpers *)

Abs(x) == IF x < 0 THEN -x ELSE x

\* cost_per_unit is NULL (the caller sent none)
NoCost == 0 - 1

RECURSIVE SumQty(_)
SumQty(S) ==
    IF S = {} THEN 0
    ELSE LET m == CHOOSE x \in S : TRUE IN m.quantity + SumQty(S \ {m})

NoWrite == [set |-> FALSE, val |-> 0, calls |-> {}]
NoWrites == [t \in Tenants |-> [p \in Products |-> NoWrite]]

\* a connection without uncommitted registry writes, DDL or table locks
NoAdminWrites ==
    [reg |-> [code \in TenantCodes |-> "same"],
     sch |-> [t \in Tenants |-> "same"],
     tbl |-> [t \in Tenants |-> [set |-> FALSE, val |-> {}]],
     ins |-> {}, upd |-> {}, sal |-> {}, used |-> {}]

IdleReq ==
    [op |-> "none", pc |-> "idle", call |-> 0, tenantSchema |-> "tenant_a",
     product_id |-> 1, movement_type |-> "entrada", quantity |-> 0,
     reference_type |-> "ajuste", currentStock |-> 0, stockChange |-> 0,
     err |-> "none", items |-> <<>>, idx |-> 0, processed |-> 0,
     updated |-> 0, movements_created |-> 0, errors |-> <<>>,
     generated |-> <<>>, tenant_code |-> "", route |-> FALSE, confirm |-> "",
     confirmDelete |-> FALSE, result |-> "none",
     insightId |-> <<0, "">>, status |-> "", productId |-> 0, rows |-> <<>>,
     httpStatus |-> 0, sale_number |-> "", saleId |-> 0, details |-> <<>>,
     validatedDetails |-> <<>>, newStock |-> 0]

\* what a request slot remembers of the moment its call began: the committed
\* tables and the call that ran in the slot before
Snapshot(r) ==
    [stock |-> stock, movs |-> movs, sales |-> sales, registry |-> registry,
     schemas |-> schemas, tables |-> tables, prevOp |-> req[r].op,
     prevItems |-> req[r].items, prevErrors |-> req[r].errors,
     prevUpdated |-> req[r].updated]

-----------------------------------------------------------------------------
(* The connection pool behind pool.query *)

\* client.release(): the connection goes to the first waiting request, or
\* back on the idle stack
Release(pl, r) ==
    LET c == pl.hold[r] IN
    IF pl.waitq # <<>>
    THEN [pl EXCEPT !.hold = [@ EXCEPT ![r] = 0, ![Head(pl.waitq)] = c],
                    !.waitq = Tail(@)]
    ELSE [pl EXCEPT !.hold[r] = 0, !.idle = Append(@, c)]

\* pool.connect(): the most recently released idle connection, else a new
\* connection while fewer than dbConfig.max exist, else wait in the queue
ConnectUpTo(pl, r, max) ==
    IF pl.idle # <<>>
    THEN [pl EXCEPT !.hold[r] = pl.idle[Len(pl.idle)],
                    !.idle = SubSeq(@, 1, Len(@) - 1)]
    ELSE IF pl.ncon < max
    THEN [pl EXCEPT !.hold[r] = pl.ncon + 1, !.ncon = @ + 1]
    ELSE [pl EXCEPT !.waitq = Append(@, r)]

Connect(pl, r) == ConnectUpTo(pl, r, dbMax)

\* `await query(a); await query(b)`: a's connection is released, then b asks
\* the pool for one
NextQuery(r) == Connect(Release(pool, r), r)

\* the last statement of a call: the connection is released
LastQuery(r) == Release(pool, r)

Holding(r) == pool.hold[r] # 0

-----------------------------------------------------------------------------
(* What a statement sees and does on the connection it runs on *)

\* READ COMMITTED: committed data overlaid with the connection's own writes
View(c, t, p) ==
    IF ctx[c] = "open" /\ pstock[c][t][p].set THEN pstock[c][t][p].val
    ELSE stock[t][p]

\* the row lock an UPDATE needs is held by another connection's transaction
Locked(c, t, p) ==
    \E d \in Conns : d # c /\ ctx[d] = "open" /\ pstock[d][t][p].set

\* the schema exists for a statement on connection c
SchemaView(c, t) ==
    IF ctx[c] = "open" /\ padmin[c].sch[t] # "same"
    THEN padmin[c].sch[t] = "present"
    ELSE t \in schemas

\* the registry row of a tenant code as a statement on connection c sees it
RegView(c, code) ==
    IF ctx[c] = "open" /\ padmin[c].reg[code] # "same"
    THEN padmin[c].reg[code]
    ELSE registry[code]

\* the tables and indexes of a schema as a statement on connection c sees
\* them
TablesView(c, t) ==
    IF ctx[c] = "open" /\ padmin[c].tbl[t].set THEN padmin[c].tbl[t].val
    ELSE tables[t]

\* another connection's transaction has created or dropped the schema and
\* holds its exclusive lock: statements on its tables wait
DdlPending(c, t) ==
    \E d \in Conns : d # c /\ ctx[d] = "open" /\ padmin[d].sch[t] # "same"

\* another connection's transaction holds a lock on a table of the schema:
\* DROP SCHEMA waits
InUse(c, t) ==
    \E d \in Conns : d # c /\ ctx[d] = "open" /\ t \in padmin[d].used

\* the statement raises an SQL error: the transaction is aborted, or the
\* relation does not exist
StatementFails(c, t) ==
    \/ ctx[c] = "aborted"
    \/ ~SchemaView(c, t)
    \/ ~({"products", "inventory_movements"} \subseteq TablesView(c, t))

\* a transaction keeps the lock of every table it reads or writes
Touch(c, t) ==
    IF ctx[c] = "open" /\ SchemaView(c, t)
    THEN [padmin EXCEPT ![c].used = @ \cup {t}] ELSE padmin

\* a statement that raises an SQL error inside a transaction aborts it
AfterError(c) == IF ctx[c] = "open" THEN "aborted" ELSE ctx[c]

\* the pending writes of connection c applied to the committed tables
CommittedStock(c) ==
    [t \in Tenants |-> [p \in Products |->
        IF pstock[c][t][p].set THEN pstock[c][t][p].val ELSE stock[t][p]]]

PendingCalls(c) ==
    UNION {pstock[c][t][p].calls : t \in Tenants, p \in Products}

CommittedRegistry(c) ==
    [code \in TenantCodes |->
        IF padmin[c].reg[code] # "same" THEN padmin[c].reg[code]
        ELSE registry[code]]

CommittedSchemas(c) ==
    {t \in Tenants : IF padmin[c].sch[t] # "same" THEN padmin[c].sch[t] = "present"
                     ELSE t \in schemas}

CommittedTables(c) ==
    [t \in Tenants |->
        IF padmin[c].tbl[t].set THEN padmin[c].tbl[t].val ELSE tables[t]]

\* insight_id of a row
InsightId(i) == <<i.call, i.rule>>

\* the rows of the insights tables with the pending inserts and updates of
\* connection c applied
CommittedInsights(c) ==
    {i \in insights :
        ~\E u \in padmin[c].upd :
            u.schema = i.schema /\ InsightId(u) = InsightId(i)}
        \cup padmin[c].upd \cup padmin[c].ins

\* the rows of the insights tables as a statement on connection c sees them
InsightsView(c) == IF ctx[c] = "open" THEN CommittedInsights(c) ELSE insights

\* the rows of the sales tables with the pending inserts and updates of
\* connection c applied
CommittedSales(c) ==
    {s \in sales : ~\E u \in padmin[c].sal : u.schema = s.schema /\ u.id = s.id}
        \cup padmin[c].sal

\* the rows of the sales tables as a statement on connection c sees them
SalesView(c) == IF ctx[c] = "open" THEN CommittedSales(c) ELSE sales

\* COMMIT on connection c
DoCommit(c) ==
    IF ctx[c] = "open"
    THEN /\ stock' = CommittedStock(c)
         /\ movs' = movs \cup pmovs[c]
         /\ updSeen' = updSeen \cup PendingCalls(c)
         /\ registry' = CommittedRegistry(c)
         /\ schemas' = CommittedSchemas(c)
         /\ tables' = CommittedTables(c)
         /\ insights' = CommittedInsights(c)
         /\ sales' = CommittedSales(c)
    ELSE UNCHANGED <<stock, movs, updSeen, registry, schemas, tables, insights,
                     sales>>

\* the end of a transaction (COMMIT or ROLLBACK) on connection c
EndTxn(c) ==
    /\ ctx' = [ctx EXCEPT ![c] = "none"]
    /\ pstock' = [pstock EXCEPT ![c] = NoWrites]
    /\ pmovs' = [pmovs EXCEPT ![c] = {}]
    /\ padmin' = [padmin EXCEPT ![c] = NoAdminWrites]

-----------------------------------------------------------------------------
(* Inventory.addMovement *)

\* the signed stock change of a movement
StockChange(movement_type, quantity) ==
    CASE movement_type = "entrada" -> Abs(quantity)
      [] movement_type = "salida" -> -Abs(quantity)
      [] OTHER -> quantity

\* the switch without the stock check of its 'salida' case
MovementErrorUnchecked(movement_type, currentStock, quantity) ==
    CASE movement_type = "entrada" -> "none"
      [] movement_type = "salida" -> "none"
      [] movement_type = "ajuste" ->
            IF currentStock + StockChange(movement_type, quantity) < 0
            THEN "negative_adjust" ELSE "none"
      [] movement_type = "sincronizacion" -> "none"
      [] OTHER -> "invalid_type"

\* the error thrown between the SELECT and the INSERT, or "none"
MovementError(movement_type, currentStock, quantity) ==
    CASE movement_type = "entrada" -> "none"
      [] movement_type = "salida" ->
            IF currentStock + StockChange(movement_type, quantity) < 0
            THEN "insufficient" ELSE "none"
      [] movement_type = "ajuste" ->
            IF currentStock + StockChange(movement_type, quantity) < 0
            THEN "negative_adjust" ELSE "none"
      [] movement_type = "sincronizacion" -> "none"
      [] OTHER -> "invalid_type"

\* error.message of what addMovement throws, word by word: the message
\* thrown inside the try block behind the prefix of the catch block, an
\* error of BEGIN as the driver words it
ErrorPrefix == <<"Error", "registrando", "movimiento:">>

ErrorMessage(err) ==
    CASE err = "not_found" ->
            ErrorPrefix \o <<"Producto", "con", "ID", "n", "no", "encontrado">>
      [] err = "insufficient" ->
            ErrorPrefix \o <<"No", "hay", "suficiente", "stock", "para",
                             "realizar", "esta", "salida">>
      [] err = "negative_adjust" ->
            ErrorPrefix \o <<"El", "ajuste", "resultaria", "en", "stock",
                             "negativo">>
      [] err = "invalid_type" ->
            ErrorPrefix \o <<"Tipo", "de", "movimiento", "no", "valido">>
      [] err = "begin" -> <<"current", "transaction", "is", "aborted">>
      [] OTHER -> ErrorPrefix \o <<"database", "error">>

\* error.message.includes(phrase)
Includes(message, phrase) ==
    \E i \in 0..(Len(message) - Len(phrase)) :
        SubSeq(message, i + 1, i + Len(phrase)) = phrase

\* the catch block of POST /movements
ErrorResponse(message) ==
    IF Includes(message, <<"no", "encontrado">>)
    THEN [status |-> 404, error |-> "PRODUCT_NOT_FOUND"]
    ELSE IF Includes(message, <<"No", "hay", "suficiente", "stock">>)
    THEN [status |-> 400, error |-> "INSUFFICIENT_STOCK"]
    ELSE [status |-> 500, error |-> "ADD_MOVEMENT_ERROR"]

\* the request with the answer of POST /movements, when the call came
\* through the route: 201 or the answer of the catch block
Answered(rq, thrown) ==
    IF ~rq.route THEN rq
    ELSE IF thrown = "none"
    THEN [rq EXCEPT !.httpStatus = 201, !.result = "success"]
    ELSE LET res == ErrorResponse(ErrorMessage(thrown))
         IN [rq EXCEPT !.httpStatus = res.status, !.result = res.error]

\* a call of Inventory.addMovement, from POST /movements (route) or direct
EnterAddMovement(cap, r, t, p, ty, q, ref, route) ==
    /\ req[r].pc \in {"idle", "done"}
    /\ ncalls < cap
    /\ ncalls' = ncalls + 1
    /\ req' = [req EXCEPT ![r] =
                  [IdleReq EXCEPT !.op = "addMovement", !.pc = "begin",
                                  !.call = ncalls + 1, !.tenantSchema = t,
                                  !.product_id = p, !.movement_type = ty,
                                  !.quantity = q, !.reference_type = ref,
                                  !.route = route]]
    /\ pre' = [pre EXCEPT ![r] = Snapshot(r)]
    /\ pool' = Connect(pool, r)
    /\ UNCHANGED <<dbMax, prodattr, sales, stock, movs, nextId, updSeen, ctx, pstock, pmovs, padmin, webVars>>

StartAddMovementWithin(cap, r, t, p, ty, q, ref) ==
    EnterAddMovement(cap, r, t, p, ty, q, ref, FALSE)

StartAddMovement(r, t, p, ty, q, ref) ==
    StartAddMovementWithin(MaxCalls, r, t, p, ty, q, ref)

\* POST /movements: 400 VALIDATION_ERROR when product_id, movement_type,
\* quantity or reference_type is missing or falsy, otherwise
\* Inventory.addMovement(tenantSchema, req.body)
RouteAddMovement(r, t, p, ty, q, ref) ==
    IF p = 0 \/ ty = "" \/ q = 0 \/ ref = ""
    THEN /\ req[r].pc \in {"idle", "done"}
         /\ ncalls < MaxCalls
         /\ ncalls' = ncalls + 1
         /\ req' = [req EXCEPT ![r] =
                       [IdleReq EXCEPT !.op = "addMovement", !.pc = "done",
                                       !.call = ncalls + 1, !.tenantSchema = t,
                                       !.product_id = p, !.movement_type = ty,
                                       !.quantity = q, !.reference_type = ref,
                                       !.route = TRUE, !.httpStatus = 400,
                                       !.err = "validation",
                                       !.result = "VALIDATION_ERROR"]]
         /\ pre' = [pre EXCEPT ![r] = Snapshot(r)]
         /\ UNCHANGED <<dbMax, prodattr, sales, stock, movs, nextId, updSeen, ctx,
                        pstock, pmovs, padmin, pool, webVars>>
    ELSE EnterAddMovement(MaxCalls, r, t, p, ty, q, ref, TRUE)

\* const client = await query('BEGIN');   (outside the try block)
AmBegin(r) ==
    /\ req[r].op = "addMovement" /\ req[r].pc = "begin" /\ Holding(r)
    /\ LET c == pool.hold[r] IN
       IF ctx[c] = "aborted"
       THEN /\ req' = [req EXCEPT ![r] =
                         Answered([@ EXCEPT !.pc = "done", !.err = "sql"],
                                  "begin")]
            /\ pool' = LastQuery(r)
            /\ UNCHANGED ctx
       ELSE /\ ctx' = [ctx EXCEPT ![c] = "open"]
            /\ req' = [req EXCEPT ![r].pc = "select"]
            /\ pool' = NextQuery(r)
    /\ UNCHANGED <<dbMax, prodattr, sales, stock, movs, nextId, updSeen, pstock, pmovs, ncalls, pre, padmin, webVars>>

\* SELECT current_stock FROM "<tenantSchema>".products WHERE id = $1
\* and the switch on movement_type
AmSelect(r) ==
    /\ req[r].op = "addMovement" /\ req[r].pc = "select" /\ Holding(r)
    /\ LET c == pool.hold[r]
           rq == req[r]
           t == rq.tenantSchema
       IN
       /\ ~DdlPending(c, t)
       /\ padmin' = Touch(c, t)
       /\ IF StatementFails(c, t)
          THEN /\ req' = [req EXCEPT ![r].pc = "rollback", ![r].err = "sql"]
               /\ ctx' = [ctx EXCEPT ![c] = AfterError(c)]
          ELSE /\ UNCHANGED ctx
               /\ IF rq.product_id \notin Products
                  THEN req' = [req EXCEPT ![r].pc = "rollback",
                                          ![r].err = "not_found"]
                  ELSE LET cur == View(c, t, rq.product_id)
                           e == MovementError(rq.movement_type, cur, rq.quantity)
                       IN req' = [req EXCEPT
                                ![r].currentStock = cur,
                                ![r].stockChange =
                                    IF e = "invalid_type" THEN 0
                                    ELSE StockChange(rq.movement_type, rq.quantity),
                                ![r].err = e,
                                ![r].pc = IF e = "none" THEN "insert"
                                          ELSE "rollback"]
    /\ pool' = NextQuery(r)
    /\ UNCHANGED <<dbMax, prodattr, sales, stock, movs, nextId, updSeen, pstock, pmovs, ncalls, pre, webVars>>

\* the row addMovement inserts
MovementRow(rq, id) ==
    [id |-> id, schema |-> rq.tenantSchema, product_id |-> rq.product_id,
     movement_type |-> rq.movement_type, quantity |-> rq.stockChange,
     previous_stock |-> rq.currentStock,
     new_stock |-> rq.currentStock + rq.stockChange,
     reference_type |-> rq.reference_type, call |-> rq.call,
     cost_per_unit |-> NoCost]

\* INSERT INTO "<tenantSchema>".inventory_movements (...) RETURNING *
AmInsert(r) ==
    /\ req[r].op = "addMovement" /\ req[r].pc = "insert" /\ Holding(r)
    /\ LET c == pool.hold[r]
           rq == req[r]
       IN
       /\ ~DdlPending(c, rq.tenantSchema)
       /\ padmin' = Touch(c, rq.tenantSchema)
       /\ IF \/ StatementFails(c, rq.tenantSchema)
             \/ rq.reference_type \notin ReferenceTypes
          THEN /\ ctx' = [ctx EXCEPT ![c] = AfterError(c)]
               /\ req' = [req EXCEPT ![r].pc = "rollback", ![r].err = "sql"]
               /\ UNCHANGED <<movs, pmovs, nextId>>
          ELSE /\ nextId' = nextId + 1
               /\ IF ctx[c] = "open"
                  THEN /\ pmovs' = [pmovs EXCEPT ![c] = @ \cup {MovementRow(rq, nextId)}]
                       /\ UNCHANGED movs
                  ELSE /\ movs' = movs \cup {MovementRow(rq, nextId)}
                       /\ UNCHANGED pmovs
               /\ req' = [req EXCEPT ![r].pc = "update"]
               /\ UNCHANGED ctx
    /\ pool' = NextQuery(r)
    /\ UNCHANGED <<dbMax, prodattr, sales, stock, updSeen, pstock, ncalls, pre, webVars>>

\* UPDATE "<tenantSchema>".products SET current_stock = $1 WHERE id = $2
AmUpdate(r) ==
    /\ req[r].op = "addMovement" /\ req[r].pc = "update" /\ Holding(r)
    /\ LET c == pool.hold[r]
           rq == req[r]
           t == rq.tenantSchema
           p == rq.product_id
           new == rq.currentStock + rq.stockChange
       IN
       /\ ~Locked(c, t, p)
       /\ ~DdlPending(c, t)
       /\ padmin' = Touch(c, t)
       /\ IF StatementFails(c, t)
          THEN /\ req' = [req EXCEPT ![r].pc = "rollback", ![r].err = "sql"]
               /\ ctx' = [ctx EXCEPT ![c] = AfterError(c)]
               /\ UNCHANGED <<stock, pstock, updSeen>>
          ELSE /\ UNCHANGED ctx
               /\ IF ctx[c] = "open"
                  THEN /\ pstock' = [pstock EXCEPT ![c][t][p] =
                              [set |-> TRUE, val |-> new,
                               calls |-> @.calls \cup {rq.call}]]
                       /\ UNCHANGED <<stock, updSeen>>
                  ELSE /\ stock' = [stock EXCEPT ![t][p] = new]
                       /\ updSeen' = updSeen \cup {rq.call}
                       /\ UNCHANGED pstock
               /\ req' = [req EXCEPT ![r].pc = "commit"]
    /\ pool' = NextQuery(r)
    /\ UNCHANGED <<dbMax, prodattr, sales, movs, nextId, pmovs, ncalls, pre, webVars>>

\* the UPDATE waits for a row lock until statement_timeout cancels it
AmUpdateTimeout(r) ==
    /\ req[r].op = "addMovement" /\ req[r].pc = "update" /\ Holding(r)
    /\ LET c == pool.hold[r] IN
       /\ Locked(c, req[r].tenantSchema, req[r].product_id)
       /\ ctx' = [ctx EXCEPT ![c] = AfterError(c)]
    /\ req' = [req EXCEPT ![r].pc = "rollback", ![r].err = "timeout"]
    /\ pool' = NextQuery(r)
    /\ UNCHANGED <<dbMax, prodattr, sales, stock, movs, nextId, updSeen, pstock, pmovs, ncalls, pre, padmin, webVars>>

\* await query('COMMIT'); return movementResult.rows[0]
AmCommit(r) ==
    /\ req[r].op = "addMovement" /\ req[r].pc = "commit" /\ Holding(r)
    /\ DoCommit(pool.hold[r])
    /\ EndTxn(pool.hold[r])
    /\ req' = [req EXCEPT ![r] = Answered([@ EXCEPT !.pc = "done"], "none")]
    /\ pool' = LastQuery(r)
    /\ UNCHANGED <<dbMax, prodattr, nextId, ncalls, pre, http, resolved>>

\* catch (error) { await query('ROLLBACK'); throw ... }
AmRollback(r) ==
    /\ req[r].op = "addMovement" /\ req[r].pc = "rollback" /\ Holding(r)
    /\ EndTxn(pool.hold[r])
    /\ req' = [req EXCEPT ![r] = Answered([@ EXCEPT !.pc = "done"], @.err)]
    /\ pool' = LastQuery(r)
    /\ UNCHANGED <<dbMax, prodattr, sales, stock, movs, nextId, updSeen, ncalls, pre, webVars>>

-----------------------------------------------------------------------------
(* Inventory.syncInventory *)

\* one element of sync_data; valid = FALSE stands for an external_stock that
\* is no integer (missing, a word, a fraction), for which
\* external_stock - currentStock is NaN
SyncItem(p, x, ok) == [product_id |-> p, external_stock |-> x, valid |-> ok]

SyncItems ==
    {SyncItem(p, x, TRUE) : p \in ProductIds, x \in (-1)..MaxQty}
        \cup {SyncItem(p, 0, FALSE) : p \in ProductIds}

SyncBatches == UNION {[1..n -> SyncItems] : n \in 1..MaxItems}

\* a difference that forgets the stock already held
SyncDifferenceStale(external_stock, currentStock) == external_stock

\* const difference = external_stock - currentStock
SyncDifference(external_stock, currentStock) == external_stock - currentStock

StartSync(r, t, items) ==
    /\ req[r].pc \in {"idle", "done"}
    /\ ncalls < MaxCalls
    /\ ncalls' = ncalls + 1
    /\ req' = [req EXCEPT ![r] =
                  [IdleReq EXCEPT !.op = "syncInventory", !.pc = "begin",
                                  !.call = ncalls + 1, !.tenantSchema = t,
                                  !.items = items, !.idx = 1]]
    /\ pre' = [pre EXCEPT ![r] = Snapshot(r)]
    /\ pool' = Connect(pool, r)
    /\ UNCHANGED <<dbMax, prodattr, sales, stock, movs, nextId, updSeen, ctx, pstock, pmovs, padmin, webVars>>

\* the pc after item idx is finished: the next item, or the COMMIT
AfterItem(rq) == IF rq.idx < Len(rq.items) THEN "select" ELSE "commit"

\* syncResults.errors.push(...); the loop goes on with the next item
ItemFailed(rq, kind) ==
    [rq EXCEPT !.errors = Append(@, [product_id |-> rq.items[rq.idx].product_id,
                                     kind |-> kind]),
               !.pc = AfterItem(rq), !.idx = @ + 1]

\* const client = await query('BEGIN');   (outside the try block)
SyBegin(r) ==
    /\ req[r].op = "syncInventory" /\ req[r].pc = "begin" /\ Holding(r)
    /\ LET c == pool.hold[r] IN
       IF ctx[c] = "aborted"
       THEN /\ req' = [req EXCEPT ![r].pc = "done", ![r].err = "sql"]
            /\ pool' = LastQuery(r)
            /\ UNCHANGED ctx
       ELSE /\ ctx' = [ctx EXCEPT ![c] = "open"]
            /\ req' = [req EXCEPT ![r].pc =
                          IF Len(req[r].items) = 0 THEN "commit" ELSE "select"]
            /\ pool' = NextQuery(r)
    /\ UNCHANGED <<dbMax, prodattr, sales, stock, movs, nextId, updSeen, pstock, pmovs, ncalls, pre, padmin, webVars>>

\* SELECT current_stock, sku, name FROM "<tenantSchema>".products WHERE id = $1
\* and the computation of difference
SySelect(r) ==
    /\ req[r].op = "syncInventory" /\ req[r].pc = "select" /\ Holding(r)
    /\ LET c == pool.hold[r]
           rq == req[r]
           item == rq.items[rq.idx]
       IN
       /\ ~DdlPending(c, rq.tenantSchema)
       /\ padmin' = Touch(c, rq.tenantSchema)
       /\ IF StatementFails(c, rq.tenantSchema)
          THEN /\ req' = [req EXCEPT ![r] = ItemFailed(rq, "item_error")]
               /\ ctx' = [ctx EXCEPT ![c] = AfterError(c)]
          ELSE /\ UNCHANGED ctx
               /\ IF item.product_id \notin Products
                  THEN req' = [req EXCEPT ![r] = ItemFailed(rq, "not_found")]
                  ELSE LET cur == View(c, rq.tenantSchema, item.product_id)
                           differs == \/ ~item.valid
                                      \/ SyncDifference(item.external_stock, cur) # 0
                       IN req' = [req EXCEPT
                                ![r].currentStock = cur,
                                ![r].processed = @ + 1,
                                ![r].pc = IF differs THEN "insert" ELSE AfterItem(rq),
                                ![r].idx = IF differs THEN @ ELSE @ + 1]
    /\ pool' = NextQuery(r)
    /\ UNCHANGED <<dbMax, prodattr, sales, stock, movs, nextId, updSeen, pstock, pmovs, ncalls, pre, webVars>>

\* the row syncInventory inserts for an item
SyncRow(rq, id) ==
    LET item == rq.items[rq.idx] IN
    [id |-> id, schema |-> rq.tenantSchema, product_id |-> item.product_id,
     movement_type |-> "sincronizacion",
     quantity |-> SyncDifference(item.external_stock, rq.currentStock),
     previous_stock |-> rq.currentStock, new_stock |-> item.external_stock,
     reference_type |-> "sync", call |-> rq.call, cost_per_unit |-> NoCost]

\* INSERT INTO "<tenantSchema>".inventory_movements (...)
SyInsert(r) ==
    /\ req[r].op = "syncInventory" /\ req[r].pc = "insert" /\ Holding(r)
    /\ LET c == pool.hold[r]
           rq == req[r]
       IN
       /\ ~DdlPending(c, rq.tenantSchema)
       /\ padmin' = Touch(c, rq.tenantSchema)
       /\ IF StatementFails(c, rq.tenantSchema) \/ ~rq.items[rq.idx].valid
          THEN /\ ctx' = [ctx EXCEPT ![c] = AfterError(c)]
               /\ req' = [req EXCEPT ![r] = ItemFailed(rq, "item_error")]
               /\ UNCHANGED <<movs, pmovs, nextId>>
          ELSE /\ nextId' = nextId + 1
               /\ IF ctx[c] = "open"
                  THEN /\ pmovs' = [pmovs EXCEPT ![c] = @ \cup {SyncRow(rq, nextId)}]
                       /\ UNCHANGED movs
                  ELSE /\ movs' = movs \cup {SyncRow(rq, nextId)}
                       /\ UNCHANGED pmovs
               /\ req' = [req EXCEPT ![r].pc = "update"]
               /\ UNCHANGED ctx
    /\ pool' = NextQuery(r)
    /\ UNCHANGED <<dbMax, prodattr, sales, stock, updSeen, pstock, ncalls, pre, webVars>>

\* UPDATE "<tenantSchema>".products SET current_stock = $1 WHERE id = $2
SyUpdate(r) ==
    /\ req[r].op = "syncInventory" /\ req[r].pc = "update" /\ Holding(r)
    /\ LET c == pool.hold[r]
           rq == req[r]
           t == rq.tenantSchema
           item == rq.items[rq.idx]
           p == item.product_id
       IN
       /\ ~Locked(c, t, p)
       /\ ~DdlPending(c, t)
       /\ padmin' = Touch(c, t)
       /\ IF StatementFails(c, t)
          THEN /\ req' = [req EXCEPT ![r] = ItemFailed(rq, "item_error")]
               /\ ctx' = [ctx EXCEPT ![c] = AfterError(c)]
               /\ UNCHANGED <<stock, pstock, updSeen>>
          ELSE /\ UNCHANGED ctx
               /\ IF ctx[c] = "open"
                  THEN /\ pstock' = [pstock EXCEPT ![c][t][p] =
                              [set |-> TRUE, val |-> item.external_stock,
                               calls |-> @.calls \cup {rq.call}]]
                       /\ UNCHANGED <<stock, updSeen>>
                  ELSE /\ stock' = [stock EXCEPT ![t][p] = item.external_stock]
                       /\ updSeen' = updSeen \cup {rq.call}
                       /\ UNCHANGED pstock
               /\ req' = [req EXCEPT ![r].updated = @ + 1,
                                     ![r].movements_created = @ + 1,
                                     ![r].pc = AfterItem(rq),
                                     ![r].idx = @ + 1]
    /\ pool' = NextQuery(r)
    /\ UNCHANGED <<dbMax, prodattr, sales, movs, nextId, pmovs, ncalls, pre, webVars>>

\* await query('COMMIT'); return syncResults
\* (COMMIT of an aborted transaction rolls it back and reports no error, so
\* the ROLLBACK of the outer catch block is never reached from the loop)
SyCommit(r) ==
    /\ req[r].op = "syncInventory" /\ req[r].pc = "commit" /\ Holding(r)
    /\ DoCommit(pool.hold[r])
    /\ EndTxn(pool.hold[r])
    /\ req' = [req EXCEPT ![r].pc = "done"]
    /\ pool' = LastQuery(r)
    /\ UNCHANGED <<dbMax, prodattr, nextId, ncalls, pre, http, resolved>>

-----------------------------------------------------------------------------
(* The process stops: every request in flight is lost and the server ends  *)
(* the transactions of the closed connections.                             *)

EmptyPool == [idle |-> <<>>, waitq |-> <<>>, hold |-> [r \in Req |-> 0], ncon |-> 0]

Crash ==
    /\ \E r \in Req : req[r].pc \notin {"idle", "done"}
    /\ req' = [r \in Req |-> IF req[r].pc \in {"idle", "done"} THEN req[r]
                             ELSE [req[r] EXCEPT !.pc = "done", !.err = "crash"]]
    /\ ctx' = [c \in Conns |-> "none"]
    /\ pstock' = [c \in Conns |-> NoWrites]
    /\ pmovs' = [c \in Conns |-> {}]
    /\ padmin' = [c \in Conns |-> NoAdminWrites]
    /\ pool' = EmptyPool
    /\ UNCHANGED <<dbMax, prodattr, sales, stock, movs, nextId, updSeen, ncalls, pre, webVars>>

-----------------------------------------------------------------------------
(* Sales.create *)

\* payment_status VARCHAR(50) of the sales table of a tenant schema takes
\* any word of up to 50 characters
PaymentStatusFits(status) == TRUE

\* one entry of saleData.details
Detail(product_id, quantity) == [product_id |-> product_id, quantity |-> quantity]

\* a statement on the sales tables of a schema raises an SQL error
SalesStatementFails(c, t) ==
    \/ StatementFails(c, t)
    \/ ~({"sales", "sale_details", "clients"} \subseteq TablesView(c, t))

\* a statement on connection c writes a row of sales
SaleWrite(c, row) ==
    IF ctx[c] = "open"
    THEN /\ padmin' = [Touch(c, row.schema) EXCEPT
                          ![c].sal = {s \in @ : s.schema # row.schema \/ s.id # row.id}
                                        \cup {row}]
         /\ UNCHANGED sales
    ELSE /\ sales' = {s \in sales : s.schema # row.schema \/ s.id # row.id}
                        \cup {row}
         /\ padmin' = Touch(c, row.schema)

\* the row of sales another connection's transaction has written is locked
SaleLocked(c, t, id) ==
    \E d \in Conns :
        /\ d # c /\ ctx[d] = "open"
        /\ \E s \in padmin[d].sal : s.schema = t /\ s.id = id

StartCreateSale(r, t, sale_number, details) ==
    /\ req[r].pc \in {"idle", "done"}
    /\ ncalls < MaxCalls
    /\ ncalls' = ncalls + 1
    /\ req' = [req EXCEPT ![r] =
                  [IdleReq EXCEPT !.op = "createSale", !.pc = "begin",
                                  !.call = ncalls + 1, !.tenantSchema = t,
                                  !.sale_number = sale_number,
                                  !.details = details]]
    /\ pre' = [pre EXCEPT ![r] = Snapshot(r)]
    /\ pool' = Connect(pool, r)
    /\ UNCHANGED <<dbMax, prodattr, sales, stock, movs, nextId, updSeen, ctx,
                   pstock, pmovs, padmin, webVars>>

\* const client = await query('BEGIN');   (outside the try block)
ScBegin(r) ==
    /\ req[r].op = "createSale" /\ req[r].pc = "begin" /\ Holding(r)
    /\ LET c == pool.hold[r] IN
       IF ctx[c] = "aborted"
       THEN /\ req' = [req EXCEPT ![r].pc = "done", ![r].err = "sql"]
            /\ pool' = LastQuery(r)
            /\ UNCHANGED ctx
       ELSE /\ ctx' = [ctx EXCEPT ![c] = "open"]
            /\ req' = [req EXCEPT ![r].pc = "existing"]
            /\ pool' = NextQuery(r)
    /\ UNCHANGED <<dbMax, prodattr, sales, stock, movs, nextId, updSeen, pstock,
                   pmovs, ncalls, pre, padmin, webVars>>

\* SELECT id FROM "<tenantSchema>".sales WHERE sale_number = $1
ScExisting(r) ==
    /\ req[r].op = "createSale" /\ req[r].pc = "existing" /\ Holding(r)
    /\ LET c == pool.hold[r]
           rq == req[r]
           t == rq.tenantSchema
       IN
       /\ ~DdlPending(c, t)
       /\ padmin' = Touch(c, t)
       /\ IF SalesStatementFails(c, t)
          THEN /\ req' = [req EXCEPT ![r].pc = "rollback", ![r].err = "sql"]
               /\ ctx' = [ctx EXCEPT ![c] = AfterError(c)]
          ELSE /\ UNCHANGED ctx
               /\ IF \E s \in SalesView(c) :
                        s.schema = t /\ s.sale_number = rq.sale_number
                  THEN req' = [req EXCEPT ![r].pc = "rollback",
                                          ![r].err = "duplicate"]
                  ELSE req' = [req EXCEPT
                                 ![r].idx = 1,
                                 ![r].pc = IF rq.details = <<>> THEN "insert_sale"
                                           ELSE "validate"]
    /\ pool' = NextQuery(r)
    /\ UNCHANGED <<dbMax, prodattr, sales, stock, movs, nextId, updSeen, pstock,
                   pmovs, ncalls, pre, webVars>>

\* the first loop, one detail: SELECT id, name, selling_price, current_stock
\* FROM products WHERE id = $1 AND active = true, the stock check and
\* validatedDetails.push({...detail, product})
ScValidate(r) ==
    /\ req[r].op = "createSale" /\ req[r].pc = "validate" /\ Holding(r)
    /\ LET c == pool.hold[r]
           rq == req[r]
           t == rq.tenantSchema
           detail == rq.details[rq.idx]
           p == detail.product_id
       IN
       /\ ~DdlPending(c, t)
       /\ padmin' = Touch(c, t)
       /\ IF StatementFails(c, t)
          THEN /\ req' = [req EXCEPT ![r].pc = "rollback", ![r].err = "sql"]
               /\ ctx' = [ctx EXCEPT ![c] = AfterError(c)]
          ELSE /\ UNCHANGED ctx
               /\ IF p \notin Products \/ ~prodattr[t][p].active
                  THEN req' = [req EXCEPT ![r].pc = "rollback",
                                          ![r].err = "not_found"]
                  ELSE IF View(c, t, p) < detail.quantity
                  THEN req' = [req EXCEPT ![r].pc = "rollback",
                                          ![r].err = "insufficient"]
                  ELSE req' = [req EXCEPT
                                 ![r].validatedDetails =
                                     Append(@, [product_id |-> p,
                                                quantity |-> detail.quantity,
                                                current_stock |-> View(c, t, p)]),
                                 ![r].idx = IF rq.idx = Len(rq.details) THEN 1
                                            ELSE rq.idx + 1,
                                 ![r].pc = IF rq.idx = Len(rq.details)
                                           THEN "insert_sale" ELSE "validate"]
    /\ pool' = NextQuery(r)
    /\ UNCHANGED <<dbMax, prodattr, sales, stock, movs, nextId, updSeen, pstock,
                   pmovs, ncalls, pre, webVars>>

\* the row INSERT INTO sales adds; its id is drawn from the sequence of the
\* table, here the number of the call
SaleRow(rq) ==
    [schema |-> rq.tenantSchema, id |-> rq.call, sale_number |-> rq.sale_number,
     payment_status |-> "pendiente", details |-> <<>>]

\* INSERT INTO "<tenantSchema>".sales (...) RETURNING *
ScInsertSale(r) ==
    /\ req[r].op = "createSale" /\ req[r].pc = "insert_sale" /\ Holding(r)
    /\ LET c == pool.hold[r]
           rq == req[r]
           t == rq.tenantSchema
       IN
       /\ ~DdlPending(c, t)
       /\ IF \/ SalesStatementFails(c, t)
             \/ \E s \in SalesView(c) :
                   s.schema = t /\ s.sale_number = rq.sale_number
          THEN /\ req' = [req EXCEPT ![r].pc = "rollback", ![r].err = "sql"]
               /\ ctx' = [ctx EXCEPT ![c] = AfterError(c)]
               /\ padmin' = Touch(c, t)
               /\ UNCHANGED sales
          ELSE /\ UNCHANGED ctx
               /\ SaleWrite(c, SaleRow(rq))
               /\ req' = [req EXCEPT
                            ![r].saleId = rq.call,
                            ![r].pc = IF rq.validatedDetails = <<>> THEN "commit"
                                      ELSE "detail"]
    /\ pool' = NextQuery(r)
    /\ UNCHANGED <<dbMax, prodattr, stock, movs, nextId, updSeen, pstock, pmovs,
                   ncalls, pre, registry, schemas, tables, insights, http,
                   resolved>>

\* the second loop, one detail: INSERT INTO sale_details (...)
ScDetail(r) ==
    /\ req[r].op = "createSale" /\ req[r].pc = "detail" /\ Holding(r)
    /\ LET c == pool.hold[r]
           rq == req[r]
           t == rq.tenantSchema
           detail == rq.validatedDetails[rq.idx]
           sale == {s \in SalesView(c) : s.schema = t /\ s.id = rq.saleId}
       IN
       /\ ~DdlPending(c, t)
       /\ IF SalesStatementFails(c, t) \/ sale = {}
          THEN /\ req' = [req EXCEPT ![r].pc = "rollback", ![r].err = "sql"]
               /\ ctx' = [ctx EXCEPT ![c] = AfterError(c)]
               /\ padmin' = Touch(c, t)
               /\ UNCHANGED sales
          ELSE /\ UNCHANGED ctx
               /\ \E s \in sale :
                     SaleWrite(c, [s EXCEPT !.details =
                                     Append(@, Detail(detail.product_id,
                                                      detail.quantity))])
               /\ req' = [req EXCEPT ![r].pc = "stock"]
    /\ pool' = NextQuery(r)
    /\ UNCHANGED <<dbMax, prodattr, stock, movs, nextId, updSeen, pstock, pmovs,
                   ncalls, pre, registry, schemas, tables, insights, http,
                   resolved>>

\* const newStock = detail.product.current_stock - detail.quantity
NewStockOfSale(detail) == detail.current_stock - detail.quantity

\* UPDATE "<tenantSchema>".products SET current_stock = $1 WHERE id = $2
ScStock(r) ==
    /\ req[r].op = "createSale" /\ req[r].pc = "stock" /\ Holding(r)
    /\ LET c == pool.hold[r]
           rq == req[r]
           t == rq.tenantSchema
           detail == rq.validatedDetails[rq.idx]
           p == detail.product_id
       IN
       /\ ~Locked(c, t, p)
       /\ ~DdlPending(c, t)
       /\ padmin' = Touch(c, t)
       /\ IF StatementFails(c, t)
          THEN /\ req' = [req EXCEPT ![r].pc = "rollback", ![r].err = "sql"]
               /\ ctx' = [ctx EXCEPT ![c] = AfterError(c)]
               /\ UNCHANGED <<stock, pstock, updSeen>>
          ELSE /\ UNCHANGED ctx
               /\ IF ctx[c] = "open"
                  THEN /\ pstock' = [pstock EXCEPT ![c][t][p] =
                              [set |-> TRUE, val |-> NewStockOfSale(detail),
                               calls |-> @.calls \cup {rq.call}]]
                       /\ UNCHANGED <<stock, updSeen>>
                  ELSE /\ stock' = [stock EXCEPT ![t][p] = NewStockOfSale(detail)]
                       /\ updSeen' = updSeen \cup {rq.call}
                       /\ UNCHANGED pstock
               /\ req' = [req EXCEPT ![r].pc = "movement"]
    /\ pool' = NextQuery(r)
    /\ UNCHANGED <<dbMax, prodattr, sales, movs, nextId, pmovs, ncalls, pre,
                   webVars>>

\* the row Sales.create adds to inventory_movements for one detail
\* (cost_per_unit takes the unit price of the detail; prices are left out)
SaleMovementRow(rq, id) ==
    LET detail == rq.validatedDetails[rq.idx] IN
    [id |-> id, schema |-> rq.tenantSchema, product_id |-> detail.product_id,
     movement_type |-> "salida", quantity |-> -detail.quantity,
     previous_stock |-> detail.current_stock,
     new_stock |-> NewStockOfSale(detail),
     reference_type |-> "venta", call |-> rq.call, cost_per_unit |-> NoCost]

\* INSERT INTO "<tenantSchema>".inventory_movements (...), the last
\* statement of the loop body
ScMovement(r) ==
    /\ req[r].op = "createSale" /\ req[r].pc = "movement" /\ Holding(r)
    /\ LET c == pool.hold[r]
           rq == req[r]
           t == rq.tenantSchema
           last == rq.idx = Len(rq.validatedDetails)
       IN
       /\ ~DdlPending(c, t)
       /\ padmin' = Touch(c, t)
       /\ IF StatementFails(c, t)
          THEN /\ ctx' = [ctx EXCEPT ![c] = AfterError(c)]
               /\ req' = [req EXCEPT ![r].pc = "rollback", ![r].err = "sql"]
               /\ UNCHANGED <<movs, pmovs, nextId>>
          ELSE /\ nextId' = nextId + 1
               /\ IF ctx[c] = "open"
                  THEN /\ pmovs' = [pmovs EXCEPT
                                       ![c] = @ \cup {SaleMovementRow(rq, nextId)}]
                       /\ UNCHANGED movs
                  ELSE /\ movs' = movs \cup {SaleMovementRow(rq, nextId)}
                       /\ UNCHANGED pmovs
               /\ req' = [req EXCEPT ![r].idx = IF last THEN @ ELSE @ + 1,
                                     ![r].pc = IF last THEN "commit" ELSE "detail"]
               /\ UNCHANGED ctx
    /\ pool' = NextQuery(r)
    /\ UNCHANGED <<dbMax, prodattr, sales, stock, updSeen, pstock, ncalls, pre,
                   webVars>>

\* await query('COMMIT')
ScCommit(r) ==
    /\ req[r].op = "createSale" /\ req[r].pc = "commit" /\ Holding(r)
    /\ DoCommit(pool.hold[r])
    /\ EndTxn(pool.hold[r])
    /\ req' = [req EXCEPT ![r].pc = "get_sale"]
    /\ pool' = NextQuery(r)
    /\ UNCHANGED <<dbMax, prodattr, nextId, ncalls, pre, http, resolved>>

\* return await this.getById(tenantSchema, sale.id): the SELECT on sales
\* and clients, then the SELECT on sale_details and products
ScGetById(r) ==
    /\ req[r].op = "createSale" /\ req[r].pc \in {"get_sale", "get_details"}
    /\ Holding(r)
    /\ LET c == pool.hold[r]
           rq == req[r]
           t == rq.tenantSchema
           found == \E s \in SalesView(c) : s.schema = t /\ s.id = rq.saleId
       IN
       /\ ~DdlPending(c, t)
       /\ padmin' = Touch(c, t)
       /\ IF SalesStatementFails(c, t)
          THEN /\ req' = [req EXCEPT ![r].pc = "rollback", ![r].err = "sql"]
               /\ ctx' = [ctx EXCEPT ![c] = AfterError(c)]
               /\ pool' = NextQuery(r)
          ELSE /\ UNCHANGED ctx
               /\ IF rq.pc = "get_sale" /\ found
                  THEN /\ req' = [req EXCEPT ![r].pc = "get_details"]
                       /\ pool' = NextQuery(r)
                  ELSE /\ req' = [req EXCEPT ![r].pc = "done",
                                             ![r].result =
                                                 IF found THEN "success" ELSE "null"]
                       /\ pool' = LastQuery(r)
    /\ UNCHANGED <<dbMax, prodattr, sales, stock, movs, nextId, updSeen, pstock,
                   pmovs, ncalls, pre, webVars>>

\* catch (error) { await query('ROLLBACK'); throw ... }
ScRollback(r) ==
    /\ req[r].op = "createSale" /\ req[r].pc = "rollback" /\ Holding(r)
    /\ EndTxn(pool.hold[r])
    /\ req' = [req EXCEPT ![r].pc = "done"]
    /\ pool' = LastQuery(r)
    /\ UNCHANGED <<dbMax, prodattr, sales, stock, movs, nextId, updSeen, ncalls,
                   pre, webVars>>

-----------------------------------------------------------------------------
(* Sales.cancel behind POST /api/sales/:id/cancel *)

\* error.message of what Sales.cancel throws, word by word
CancelPrefix == <<"Error", "cancelando", "venta:">>

CancelMessage(err) ==
    CASE err = "not_found" ->
            CancelPrefix \o <<"Venta", "con", "ID", "n", "no", "encontrada">>
      [] err = "already_cancelled" ->
            CancelPrefix \o <<"La", "venta", "ya", "esta", "cancelada">>
      [] err = "begin" -> <<"current", "transaction", "is", "aborted">>
      [] OTHER -> CancelPrefix \o <<"database", "error">>

\* the catch block of POST /:id/cancel
CancelResponse(message) ==
    IF Includes(message, <<"no", "encontrada">>)
    THEN [status |-> 404, error |-> "SALE_NOT_FOUND"]
    ELSE IF Includes(message, <<"ya", "esta", "cancelada">>)
    THEN [status |-> 400, error |-> "SALE_ALREADY_CANCELLED"]
    ELSE [status |-> 500, error |-> "CANCEL_SALE_ERROR"]

\* the request with the answer of POST /:id/cancel
CancelAnswered(rq, thrown) ==
    IF thrown = "none"
    THEN [rq EXCEPT !.httpStatus = 200, !.result = "success"]
    ELSE LET res == CancelResponse(CancelMessage(thrown))
         IN [rq EXCEPT !.httpStatus = res.status, !.result = res.error]

\* POST /:id/cancel calls Sales.cancel(tenantSchema, parseInt(id), reason)
RouteCancelWithin(cap, r, t, id) ==
    /\ req[r].pc \in {"idle", "done"}
    /\ ncalls < cap
    /\ ncalls' = ncalls + 1
    /\ req' = [req EXCEPT ![r] =
                  [IdleReq EXCEPT !.op = "cancelSale", !.pc = "begin",
                                  !.call = ncalls + 1, !.tenantSchema = t,
                                  !.saleId = id, !.route = TRUE]]
    /\ pre' = [pre EXCEPT ![r] = Snapshot(r)]
    /\ pool' = Connect(pool, r)
    /\ UNCHANGED <<dbMax, prodattr, sales, stock, movs, nextId, updSeen, ctx,
                   pstock, pmovs, padmin, webVars>>

\* const client = await query('BEGIN');   (outside the try block)
CaBegin(r) ==
    /\ req[r].op = "cancelSale" /\ req[r].pc = "begin" /\ Holding(r)
    /\ LET c == pool.hold[r] IN
       IF ctx[c] = "aborted"
       THEN /\ req' = [req EXCEPT ![r] =
                         CancelAnswered([@ EXCEPT !.pc = "done", !.err = "begin"],
                                        "begin")]
            /\ pool' = LastQuery(r)
            /\ UNCHANGED ctx
       ELSE /\ ctx' = [ctx EXCEPT ![c] = "open"]
            /\ req' = [req EXCEPT ![r].pc = "get_sale"]
            /\ pool' = NextQuery(r)
    /\ UNCHANGED <<dbMax, prodattr, sales, stock, movs, nextId, updSeen, pstock,
                   pmovs, ncalls, pre, padmin, webVars>>

\* const sale = await this.getById(tenantSchema, id): the SELECT on sales
\* and clients, then the SELECT on sale_details and products, and after
\* them the two checks of cancel on the sale it got
CaGetById(r) ==
    /\ req[r].op = "cancelSale" /\ req[r].pc \in {"get_sale", "get_details"}
    /\ Holding(r)
    /\ LET c == pool.hold[r]
           rq == req[r]
           t == rq.tenantSchema
           found == {s \in SalesView(c) : s.schema = t /\ s.id = rq.saleId}
           details == IF found = {} THEN <<>>
                      ELSE (CHOOSE s \in found : TRUE).details
       IN
       /\ ~DdlPending(c, t)
       /\ padmin' = Touch(c, t)
       /\ IF SalesStatementFails(c, t)
          THEN /\ req' = [req EXCEPT ![r].pc = "rollback", ![r].err = "sql"]
               /\ ctx' = [ctx EXCEPT ![c] = AfterError(c)]
          ELSE /\ UNCHANGED ctx
               /\ IF rq.pc = "get_sale"
                  THEN IF found = {}
                       THEN req' = [req EXCEPT ![r].pc = "rollback",
                                               ![r].err = "not_found"]
                       ELSE \E s \in found :
                               req' = [req EXCEPT ![r].pc = "get_details",
                                                  ![r].status = s.payment_status]
                  ELSE IF rq.status = "cancelado"
                  THEN req' = [req EXCEPT ![r].pc = "rollback",
                                          ![r].details = details,
                                          ![r].err = "already_cancelled"]
                  ELSE req' = [req EXCEPT
                                 ![r].details = details, ![r].idx = 1,
                                 ![r].pc = IF details = <<>> THEN "mark"
                                           ELSE "select"]
    /\ pool' = NextQuery(r)
    /\ UNCHANGED <<dbMax, prodattr, sales, stock, movs, nextId, updSeen, pstock,
                   pmovs, ncalls, pre, webVars>>

\* the position after one detail of sale.details
AfterDetail(rq) ==
    IF rq.idx = Len(rq.details) THEN [pc |-> "mark", idx |-> rq.idx]
    ELSE [pc |-> "select", idx |-> rq.idx + 1]

\* SELECT current_stock FROM "<tenantSchema>".products WHERE id = $1
CaSelect(r) ==
    /\ req[r].op = "cancelSale" /\ req[r].pc = "select" /\ Holding(r)
    /\ LET c == pool.hold[r]
           rq == req[r]
           t == rq.tenantSchema
           p == rq.details[rq.idx].product_id
       IN
       /\ ~DdlPending(c, t)
       /\ padmin' = Touch(c, t)
       /\ IF StatementFails(c, t)
          THEN /\ req' = [req EXCEPT ![r].pc = "rollback", ![r].err = "sql"]
               /\ ctx' = [ctx EXCEPT ![c] = AfterError(c)]
          ELSE /\ UNCHANGED ctx
               /\ IF p \notin Products
                  THEN req' = [req EXCEPT ![r].pc = AfterDetail(rq).pc,
                                          ![r].idx = AfterDetail(rq).idx]
                  ELSE req' = [req EXCEPT ![r].currentStock = View(c, t, p),
                                          ![r].pc = "stock"]
    /\ pool' = NextQuery(r)
    /\ UNCHANGED <<dbMax, prodattr, sales, stock, movs, nextId, updSeen, pstock,
                   pmovs, ncalls, pre, webVars>>

\* const newStock = currentStock + detail.quantity
NewStockOfCancel(rq) == rq.currentStock + rq.details[rq.idx].quantity

\* UPDATE "<tenantSchema>".products SET current_stock = $1 WHERE id = $2
CaStock(r) ==
    /\ req[r].op = "cancelSale" /\ req[r].pc = "stock" /\ Holding(r)
    /\ LET c == pool.hold[r]
           rq == req[r]
           t == rq.tenantSchema
           p == rq.details[rq.idx].product_id
       IN
       /\ ~Locked(c, t, p)
       /\ ~DdlPending(c, t)
       /\ padmin' = Touch(c, t)
       /\ IF StatementFails(c, t)
          THEN /\ req' = [req EXCEPT ![r].pc = "rollback", ![r].err = "sql"]
               /\ ctx' = [ctx EXCEPT ![c] = AfterError(c)]
               /\ UNCHANGED <<stock, pstock, updSeen>>
          ELSE /\ UNCHANGED ctx
               /\ IF ctx[c] = "open"
                  THEN /\ pstock' = [pstock EXCEPT ![c][t][p] =
                              [set |-> TRUE, val |-> NewStockOfCancel(rq),
                               calls |-> @.calls \cup {rq.call}]]
                       /\ UNCHANGED <<stock, updSeen>>
                  ELSE /\ stock' = [stock EXCEPT ![t][p] = NewStockOfCancel(rq)]
                       /\ updSeen' = updSeen \cup {rq.call}
                       /\ UNCHANGED pstock
               /\ req' = [req EXCEPT ![r].pc = "movement"]
    /\ pool' = NextQuery(r)
    /\ UNCHANGED <<dbMax, prodattr, sales, movs, nextId, pmovs, ncalls, pre,
                   webVars>>

\* the row Sales.cancel adds to inventory_movements for one detail
\* (cost_per_unit takes the unit price of the detail; prices are left out)
ReversalRow(rq, id) ==
    LET detail == rq.details[rq.idx] IN
    [id |-> id, schema |-> rq.tenantSchema, product_id |-> detail.product_id,
     movement_type |-> "entrada", quantity |-> detail.quantity,
     previous_stock |-> rq.currentStock, new_stock |-> NewStockOfCancel(rq),
     reference_type |-> "sync", call |-> rq.call, cost_per_unit |-> NoCost]

\* INSERT INTO "<tenantSchema>".inventory_movements (...)
CaMovement(r) ==
    /\ req[r].op = "cancelSale" /\ req[r].pc = "movement" /\ Holding(r)
    /\ LET c == pool.hold[r]
           rq == req[r]
           t == rq.tenantSchema
       IN
       /\ ~DdlPending(c, t)
       /\ padmin' = Touch(c, t)
       /\ IF StatementFails(c, t)
          THEN /\ ctx' = [ctx EXCEPT ![c] = AfterError(c)]
               /\ req' = [req EXCEPT ![r].pc = "rollback", ![r].err = "sql"]
               /\ UNCHANGED <<movs, pmovs, nextId>>
          ELSE /\ nextId' = nextId + 1
               /\ IF ctx[c] = "open"
                  THEN /\ pmovs' = [pmovs EXCEPT
                                       ![c] = @ \cup {ReversalRow(rq, nextId)}]
                       /\ UNCHANGED movs
                  ELSE /\ movs' = movs \cup {ReversalRow(rq, nextId)}
                       /\ UNCHANGED pmovs
               /\ req' = [req EXCEPT ![r].pc = AfterDetail(rq).pc,
                                     ![r].idx = AfterDetail(rq).idx]
               /\ UNCHANGED ctx
    /\ pool' = NextQuery(r)
    /\ UNCHANGED <<dbMax, prodattr, sales, stock, updSeen, pstock, ncalls, pre,
                   webVars>>

\* UPDATE "<tenantSchema>".sales SET payment_status = 'cancelado', notes = ...
\* WHERE id = $1
CaMark(r) ==
    /\ req[r].op = "cancelSale" /\ req[r].pc = "mark" /\ Holding(r)
    /\ LET c == pool.hold[r]
           rq == req[r]
           t == rq.tenantSchema
           found == {s \in SalesView(c) : s.schema = t /\ s.id = rq.saleId}
       IN
       /\ ~SaleLocked(c, t, rq.saleId)
       /\ ~DdlPending(c, t)
       /\ IF SalesStatementFails(c, t) \/ ~PaymentStatusFits("cancelado")
          THEN /\ req' = [req EXCEPT ![r].pc = "rollback", ![r].err = "sql"]
               /\ ctx' = [ctx EXCEPT ![c] = AfterError(c)]
               /\ padmin' = Touch(c, t)
               /\ UNCHANGED sales
          ELSE /\ UNCHANGED ctx
               /\ IF found = {}
                  THEN /\ padmin' = Touch(c, t)
                       /\ UNCHANGED sales
                  ELSE \E s \in found :
                          SaleWrite(c, [s EXCEPT !.payment_status = "cancelado"])
               /\ req' = [req EXCEPT ![r].pc = "commit"]
    /\ pool' = NextQuery(r)
    /\ UNCHANGED <<dbMax, prodattr, stock, movs, nextId, updSeen, pstock, pmovs,
                   ncalls, pre, registry, schemas, tables, insights, http,
                   resolved>>

\* await query('COMMIT'); return true
CaCommit(r) ==
    /\ req[r].op = "cancelSale" /\ req[r].pc = "commit" /\ Holding(r)
    /\ DoCommit(pool.hold[r])
    /\ EndTxn(pool.hold[r])
    /\ req' = [req EXCEPT ![r] = CancelAnswered([@ EXCEPT !.pc = "done"], "none")]
    /\ pool' = LastQuery(r)
    /\ UNCHANGED <<dbMax, prodattr, nextId, ncalls, pre, http, resolved>>

\* catch (error) { await query('ROLLBACK'); throw ... }
CaRollback(r) ==
    /\ req[r].op = "cancelSale" /\ req[r].pc = "rollback" /\ Holding(r)
    /\ EndTxn(pool.hold[r])
    /\ req' = [req EXCEPT ![r] = CancelAnswered([@ EXCEPT !.pc = "done"], @.err)]
    /\ pool' = LastQuery(r)
    /\ UNCHANGED <<dbMax, prodattr, sales, stock, movs, nextId, updSeen, ncalls,
                   pre, webVars>>

-----------------------------------------------------------------------------
(* Product.update and Product.updateStock *)

\* `${value}` of a small number: its decimal digits
TemplateText(n) == <<"0", "1", "2", "3">>[n + 1]

\* Product.update(id, updateData) with updateData = {current_stock: newStock}
StartProductUpdate(r, id, newStock) ==
    /\ req[r].pc \in {"idle", "done"}
    /\ ncalls < MaxCalls
    /\ ncalls' = ncalls + 1
    /\ req' = [req EXCEPT ![r] =
                  [IdleReq EXCEPT !.op = "productUpdate", !.pc = "get",
                                  !.call = ncalls + 1, !.productId = id,
                                  !.newStock = newStock]]
    /\ pre' = [pre EXCEPT ![r] = Snapshot(r)]
    /\ pool' = Connect(pool, r)
    /\ UNCHANGED <<dbMax, prodattr, sales, stock, movs, nextId, updSeen, ctx,
                   pstock, pmovs, padmin, webVars>>

\* Product.updateStock(id, newStock, reason)
StartProductUpdateStock(r, id, newStock) ==
    /\ req[r].pc \in {"idle", "done"}
    /\ ncalls < MaxCalls
    /\ ncalls' = ncalls + 1
    /\ req' = [req EXCEPT ![r] =
                  [IdleReq EXCEPT !.op = "productUpdateStock", !.pc = "get",
                                  !.call = ncalls + 1, !.productId = id,
                                  !.newStock = newStock]]
    /\ pre' = [pre EXCEPT ![r] = Snapshot(r)]
    /\ pool' = Connect(pool, r)
    /\ UNCHANGED <<dbMax, prodattr, sales, stock, movs, nextId, updSeen, ctx,
                   pstock, pmovs, padmin, webVars>>

\* const existing = await this.getById(id): getById(tenantSchema, id) takes
\* the id as tenantSchema and selects FROM "<id>".products, a schema no
\* tenant has; were the row found, the next statement would evaluate
\* `${tenantSchema}`, a name neither function declares.  Either way the
\* catch block rethrows before any UPDATE.
ProductGetById(r) ==
    /\ req[r].op \in {"productUpdate", "productUpdateStock"}
    /\ req[r].pc = "get" /\ Holding(r)
    /\ LET c == pool.hold[r]
           tenantSchema == TemplateText(req[r].productId)
       IN
       IF tenantSchema \in schemas /\ ctx[c] # "aborted"
       THEN /\ req' = [req EXCEPT ![r].pc = "done", ![r].err = "reference"]
            /\ UNCHANGED ctx
       ELSE /\ req' = [req EXCEPT ![r].pc = "done", ![r].err = "sql"]
            /\ ctx' = [ctx EXCEPT ![c] = AfterError(c)]
    /\ pool' = LastQuery(r)
    /\ UNCHANGED <<dbMax, prodattr, sales, stock, movs, nextId, updSeen, pstock,
                   pmovs, ncalls, pre, padmin, webVars>>

-----------------------------------------------------------------------------
(* Inventory.getFIFOValuation behind GET /api/inventory/valuation *)

\* the movement rows as a statement on connection c sees them
MovsView(c) == IF ctx[c] = "open" THEN movs \cup pmovs[c] ELSE movs

\* FROM inventory_movements im WHERE im.product_id = p.id
\* AND im.movement_type = 'entrada' AND im.quantity > 0
InboundRows(M, t, p) ==
    {m \in M : /\ m.schema = t /\ m.product_id = p
               /\ m.movement_type = "entrada" /\ m.quantity > 0}

RECURSIVE SumAbsQty(_)
SumAbsQty(S) ==
    IF S = {} THEN 0
    ELSE LET m == CHOOSE x \in S : TRUE IN Abs(m.quantity) + SumAbsQty(S \ {m})

\* SUM(ABS(im.quantity)) OVER (ORDER BY im.created_at DESC ROWS UNBOUNDED
\* PRECEDING): the quantities of the row and of every newer row (rows are
\* created in the order of their ids)
RunningStock(m, L) == SumAbsQty({x \in L : x.id >= m.id})

\* COALESCE(im.cost_per_unit, p.cost_price)
LayerCost(m, cost_price) ==
    IF m.cost_per_unit = NoCost THEN cost_price ELSE m.cost_per_unit

\* a layer always counted with its whole quantity
LayerValueWhole(m, L, current_stock, cost_price) ==
    Abs(m.quantity) * LayerCost(m, cost_price)

\* the CASE inside the SUM
LayerValue(m, L, current_stock, cost_price) ==
    LET running_stock == RunningStock(m, L) IN
    IF running_stock <= current_stock
    THEN Abs(m.quantity) * LayerCost(m, cost_price)
    ELSE IF running_stock - Abs(m.quantity) < current_stock
    THEN (current_stock - (running_stock - Abs(m.quantity))) * LayerCost(m, cost_price)
    ELSE 0

RECURSIVE SumLayerValues(_, _, _, _)
SumLayerValues(S, L, current_stock, cost_price) ==
    IF S = {} THEN 0
    ELSE LET m == CHOOSE x \in S : TRUE
         IN LayerValue(m, L, current_stock, cost_price)
              + SumLayerValues(S \ {m}, L, current_stock, cost_price)

\* WHERE running_stock > (SELECT COALESCE(SUM(ABS(quantity)), 0) ...) -
\* p.current_stock
SelectedLayers(L, current_stock) ==
    {m \in L : RunningStock(m, L) > SumAbsQty(L) - current_stock}

\* the column fifo_valuation of one product: the CASE on current_stock, the
\* SUM over the selected layers, and the COALESCE that replaces the SUM of
\* no rows by current_stock * cost_price
FifoValuation(M, t, p, current_stock, cost_price) ==
    LET L == InboundRows(M, t, p)
        S == SelectedLayers(L, current_stock)
    IN IF current_stock > 0
       THEN IF S = {} THEN current_stock * cost_price
            ELSE SumLayerValues(S, L, current_stock, cost_price)
       ELSE 0

\* one row of the result
ValuationRow(c, t, p) ==
    LET current_stock == View(c, t, p)
        cost_price == prodattr[t][p].cost_price
    IN [product_id |-> p, current_stock |-> current_stock,
        current_cost |-> cost_price,
        fifo_valuation |->
            FifoValuation(MovsView(c), t, p, current_stock, cost_price),
        current_cost_valuation |-> current_stock * cost_price]

\* req.query.product_id as callers send it: none (0) or an id
SubmittedProductIds == {0} \cup ProductIds

\* GET /valuation calls Inventory.getFIFOValuation(tenantSchema, productId)
StartValuation(r, t, productId) ==
    /\ req[r].pc \in {"idle", "done"}
    /\ ncalls < MaxCalls
    /\ ncalls' = ncalls + 1
    /\ req' = [req EXCEPT ![r] =
                  [IdleReq EXCEPT !.op = "getFIFOValuation", !.pc = "query",
                                  !.call = ncalls + 1, !.tenantSchema = t,
                                  !.productId = productId]]
    /\ pre' = [pre EXCEPT ![r] = Snapshot(r)]
    /\ pool' = Connect(pool, r)
    /\ UNCHANGED <<dbMax, prodattr, sales, stock, movs, nextId, updSeen, ctx, pstock,
                   pmovs, padmin, webVars>>

\* the query and the answer: the rows of the active products, of the one
\* product when productId is given
FvQuery(r) ==
    /\ req[r].op = "getFIFOValuation" /\ req[r].pc = "query" /\ Holding(r)
    /\ LET c == pool.hold[r]
           rq == req[r]
           t == rq.tenantSchema
           listed == {p \in Products :
                         /\ prodattr[t][p].active
                         /\ rq.productId # 0 => p = rq.productId}
       IN
       /\ ~DdlPending(c, t)
       /\ IF StatementFails(c, t)
          THEN /\ req' = [req EXCEPT ![r].pc = "done", ![r].err = "sql",
                                     ![r].result = "GET_VALUATION_ERROR"]
               /\ ctx' = [ctx EXCEPT ![c] = AfterError(c)]
          ELSE /\ req' = [req EXCEPT
                            ![r].pc = "done", ![r].result = "success",
                            ![r].rows = [p \in listed |-> ValuationRow(c, t, p)]]
               /\ UNCHANGED ctx
       /\ padmin' = Touch(c, t)
    /\ pool' = LastQuery(r)
    /\ UNCHANGED <<dbMax, prodattr, sales, stock, movs, nextId, updSeen, pstock,
                   pmovs, ncalls, pre, webVars>>

-----------------------------------------------------------------------------
(* Insights.generateInventoryInsights and Insights.create *)

\* the columns of a product the rules read besides current_stock, with the
\* defaults of the products table scaled to the model's stock range
\* cost_price is held in cents (DECIMAL(15,2) DEFAULT 0)
ProductAttr(active, min, max) ==
    [active |-> active, min_stock_threshold |-> min, max_stock_threshold |-> max,
     cost_price |-> 0]

WithCost(a, cost) == [a EXCEPT !.cost_price = cost]

DefaultAttr == ProductAttr(TRUE, 1, MaxQty + InitialStock)

\* a low-stock rule that also counts products without stock
IsLowStockOrNone(st, a) == st >= 0 /\ st <= a.min_stock_threshold /\ a.active

\* WHERE current_stock = 0 AND active = true
IsOutOfStock(st, a) == st = 0 /\ a.active

\* WHERE current_stock > 0 AND current_stock <= min_stock_threshold
\* AND active = true
IsLowStock(st, a) == st > 0 /\ st <= a.min_stock_threshold /\ a.active

\* WHERE current_stock > max_stock_threshold AND active = true
IsOverStock(st, a) == st > a.max_stock_threshold /\ a.active

\* the three rules in the order generateInventoryInsights runs them
InventoryRules == <<"out_of_stock", "low_stock", "over_stock">>

\* the products a rule's SELECT returns on connection c (the LIMIT of 10 or
\* 15 rows is above the number of products of the model)
RuleRows(k, c, t) ==
    {p \in Products :
        LET st == View(c, t, p)
            a == prodattr[t][p]
        IN CASE k = 1 -> IsOutOfStock(st, a)
             [] k = 2 -> IsLowStock(st, a)
             [] OTHER -> IsOverStock(st, a)}

\* ROUND((current_stock * cost_price)::numeric, 2) as tied_capital: a whole
\* number of units times a price of two decimals has two decimals, so the
\* rounding keeps the product, here in cents
TiedCapital(st, a) == st * a.cost_price

\* p.current_stock - p.max_stock_threshold
ExcessStock(st, a) == st - a.max_stock_threshold

\* overStockProducts.reduce((sum, p) => sum + parseFloat(p.tied_capital || 0), 0)
RECURSIVE TotalTiedCapital(_)
TotalTiedCapital(tied) ==
    IF DOMAIN tied = {} THEN 0
    ELSE LET p == CHOOSE x \in DOMAIN tied : TRUE
         IN tied[p] + TotalTiedCapital([x \in DOMAIN tied \ {p} |-> tied[x]])

\* data.product_list of the overstock advisory: excess_stock and
\* tied_capital of every listed product; the other rules list neither
ProductList(k, c, t, rows) ==
    [p \in (IF k = 3 THEN rows ELSE {}) |->
        [excess_stock |-> ExcessStock(View(c, t, p), prodattr[t][p]),
         tied_capital |-> TiedCapital(View(c, t, p), prodattr[t][p])]]

RuleType(k) == IF k = 3 THEN "opportunity" ELSE "alert"

RulePriority(k) ==
    CASE k = 1 -> "critical" [] k = 2 -> "high" [] OTHER -> "medium"

\* the row Insights.create inserts for rule k; insight_id
\* (type, Date.now(), random suffix) is unique per insert, here the call and
\* the rule
InsightRow(rq, k, rows, list) ==
    [schema |-> rq.tenantSchema, call |-> rq.call, rule |-> InventoryRules[k],
     triggered_by |-> "inventory_monitor", type |-> RuleType(k),
     priority |-> RulePriority(k), status |-> "generated",
     affected_products |-> Cardinality(rows), product_list |-> rows,
     details |-> list,
     tied_capital |-> TotalTiedCapital([p \in DOMAIN list |-> list[p].tied_capital])]

\* POST /generate/inventory calls Insights.generateInventoryInsights
StartGenerate(r, t) ==
    /\ req[r].pc \in {"idle", "done"}
    /\ ncalls < MaxCalls
    /\ ncalls' = ncalls + 1
    /\ req' = [req EXCEPT ![r] =
                  [IdleReq EXCEPT !.op = "generateInventoryInsights",
                                  !.pc = "rule", !.idx = 1,
                                  !.call = ncalls + 1, !.tenantSchema = t]]
    /\ pre' = [pre EXCEPT ![r] = Snapshot(r)]
    /\ pool' = Connect(pool, r)
    /\ UNCHANGED <<dbMax, prodattr, sales, stock, movs, nextId, updSeen, ctx, pstock,
                   pmovs, padmin, webVars>>

\* one rule: its SELECT and, when it returns rows, this.create(...) and
\* generatedInsights.push(insight); an SQL error ends the run
GiRule(r) ==
    /\ req[r].op = "generateInventoryInsights" /\ req[r].pc = "rule"
    /\ Holding(r)
    /\ LET c == pool.hold[r]
           rq == req[r]
           t == rq.tenantSchema
           k == rq.idx
           rows == RuleRows(k, c, t)
           last == k = Len(InventoryRules)
       IN
       /\ ~DdlPending(c, t)
       /\ IF StatementFails(c, t) \/ (rows # {} /\ "insights" \notin TablesView(c, t))
          THEN /\ req' = [req EXCEPT ![r].pc = "done", ![r].err = "sql"]
               /\ ctx' = [ctx EXCEPT ![c] = AfterError(c)]
               /\ padmin' = Touch(c, t)
               /\ pool' = LastQuery(r)
               /\ UNCHANGED insights
          ELSE /\ UNCHANGED ctx
               /\ req' = [req EXCEPT
                            ![r].idx = k + 1,
                            ![r].pc = IF last THEN "done" ELSE "rule",
                            ![r].generated =
                                IF rows # {} THEN Append(@, InventoryRules[k])
                                ELSE @]
               /\ pool' = IF last THEN LastQuery(r) ELSE NextQuery(r)
               /\ IF rows = {}
                  THEN /\ padmin' = Touch(c, t)
                       /\ UNCHANGED insights
                  ELSE IF ctx[c] = "open"
                  THEN /\ padmin' = [Touch(c, t) EXCEPT
                                        ![c].ins = @ \cup {InsightRow(rq, k, rows, ProductList(k, c, t, rows))}]
                       /\ UNCHANGED insights
                  ELSE /\ insights' = insights \cup {InsightRow(rq, k, rows, ProductList(k, c, t, rows))}
                       /\ padmin' = Touch(c, t)
    /\ UNCHANGED <<dbMax, prodattr, sales, stock, movs, nextId, updSeen, pstock,
                   pmovs, ncalls, pre, registry, schemas, tables, http,
                   resolved>>

-----------------------------------------------------------------------------
(* Insights.updateStatus behind PATCH /api/insights/:insightId/status *)

\* the values the documentation of the route lists
Lifecycle == {"generated", "sent", "read", "acted", "dismissed"}

\* req.body.status as callers send it: a listed value, none, or another word
SubmittedStatuses == Lifecycle \cup {"", "archived"}

\* req.params.insightId: the id of a row a run may have inserted
SubmittedInsightIds ==
    {<<k, InventoryRules[n]>> : k \in 1..MaxCalls, n \in 1..Len(InventoryRules)}

\* status VARCHAR(50) of the insights table of a tenant schema takes any
\* word of up to 50 characters
StatusFits(status) == TRUE

\* the row another connection's transaction has updated is locked
InsightLocked(c, t, id) ==
    \E d \in Conns :
        /\ d # c /\ ctx[d] = "open"
        /\ \E u \in padmin[d].upd \cup padmin[d].ins :
              u.schema = t /\ InsightId(u) = id

\* SET status = $1 on one row
Restatus(i, status) == [i EXCEPT !.status = status]

\* the route: if (!status) answers 400 STATUS_REQUIRED, otherwise it calls
\* Insights.updateStatus(tenantSchema, insightId, status)
StartUpdateStatusWithin(cap, r, t, id, status) ==
    /\ req[r].pc \in {"idle", "done"}
    /\ ncalls < cap
    /\ ncalls' = ncalls + 1
    /\ pre' = [pre EXCEPT ![r] = Snapshot(r)]
    /\ IF status = ""
       THEN /\ req' = [req EXCEPT ![r] =
                         [IdleReq EXCEPT !.op = "updateStatus", !.pc = "done",
                                         !.call = ncalls + 1, !.tenantSchema = t,
                                         !.insightId = id, !.status = status,
                                         !.result = "STATUS_REQUIRED"]]
            /\ UNCHANGED pool
       ELSE /\ req' = [req EXCEPT ![r] =
                         [IdleReq EXCEPT !.op = "updateStatus", !.pc = "update",
                                         !.call = ncalls + 1, !.tenantSchema = t,
                                         !.insightId = id, !.status = status]]
            /\ pool' = Connect(pool, r)
    /\ UNCHANGED <<dbMax, prodattr, sales, stock, movs, nextId, updSeen, ctx, pstock,
                   pmovs, padmin, webVars>>

StartUpdateStatus(r, t, id, status) ==
    StartUpdateStatusWithin(MaxCalls, r, t, id, status)

\* UPDATE "<tenantSchema>".insights SET status = $1 WHERE insight_id = $2
\* RETURNING *, and the response of the route
UsUpdate(r) ==
    /\ req[r].op = "updateStatus" /\ req[r].pc = "update" /\ Holding(r)
    /\ LET c == pool.hold[r]
           rq == req[r]
           t == rq.tenantSchema
           hit == {i \in InsightsView(c) :
                      i.schema = t /\ InsightId(i) = rq.insightId}
       IN
       /\ ~DdlPending(c, t)
       /\ IF \/ ctx[c] = "aborted" \/ ~SchemaView(c, t)
             \/ "insights" \notin TablesView(c, t)
             \/ (hit # {} /\ ~StatusFits(rq.status))
          THEN /\ req' = [req EXCEPT ![r].pc = "done", ![r].err = "sql",
                                     ![r].result = "UPDATE_INSIGHT_STATUS_ERROR"]
               /\ ctx' = [ctx EXCEPT ![c] = AfterError(c)]
               /\ padmin' = Touch(c, t)
               /\ UNCHANGED insights
          ELSE IF hit = {}
          THEN /\ req' = [req EXCEPT ![r].pc = "done", ![r].err = "not_found",
                                     ![r].result = "INSIGHT_NOT_FOUND"]
               /\ padmin' = Touch(c, t)
               /\ UNCHANGED <<ctx, insights>>
          ELSE /\ ~InsightLocked(c, t, rq.insightId)
               /\ req' = [req EXCEPT ![r].pc = "done", ![r].result = "success"]
               /\ UNCHANGED ctx
               /\ IF ctx[c] = "open"
                  THEN /\ padmin' =
                            [Touch(c, t) EXCEPT
                               ![c].ins = {IF i \in hit THEN Restatus(i, rq.status)
                                           ELSE i : i \in @},
                               ![c].upd = {u \in @ : u \notin hit} \cup
                                          {Restatus(i, rq.status) :
                                               i \in hit \ padmin[c].ins}]
                       /\ UNCHANGED insights
                  ELSE /\ insights' = (insights \ hit) \cup
                                          {Restatus(i, rq.status) : i \in hit}
                       /\ padmin' = Touch(c, t)
    /\ pool' = LastQuery(r)
    /\ UNCHANGED <<dbMax, prodattr, sales, stock, movs, nextId, updSeen, pstock,
                   pmovs, ncalls, pre, registry, schemas, tables, http,
                   resolved>>

-----------------------------------------------------------------------------
(* Tenant resolution: tenantMiddleware and TenantService.getTenantFromRequest *)

\* CONCAT('tenant_', tenant_code) as schema_name
SchemaName(code) == IF code = "a" THEN "tenant_a" ELSE "tenant_b"

\* A request: the X-Tenant header, the hostname as its dot-separated labels
\* (<<>> when there is none), req.params.tenantCode, the path as its
\* slash-separated segments (a trailing "" is a trailing slash) and the
\* tenant query parameter.  "" is an absent or empty value.
HttpRequest(h, host, prm, path, q) ==
    [xTenant |-> h, hostname |-> host, paramsTenantCode |-> prm,
     path |-> path, queryTenant |-> q]

NoRequest == HttpRequest("", <<>>, "", <<"api", "health">>, "")

Unresolved ==
    [pc |-> "new", status |-> 0, error |-> "none", detected |-> "",
     tenantCode |-> "", tenantSchema |-> "", handler |-> "none",
     servicePc |-> "new",
     serviceDetected |-> "", serviceCode |-> "", serviceError |-> "none"]

\* req.hostname.startsWith('127.0.0.1')
IsLoopbackAddress(host) ==
    Len(host) >= 4 /\ SubSeq(host, 1, 4) = <<"127", "0", "0", "1">>

\* req.path.startsWith('/api/tenant/')
UnderTenantPath(path) ==
    Len(path) >= 3 /\ path[1] = "api" /\ path[2] = "tenant"

\* req.path.match(/^\/api\/tenant\/([^\/]+)\//): the third segment is not
\* empty and a slash follows it
PathMatch(path) ==
    IF UnderTenantPath(path) /\ Len(path) >= 4 /\ path[3] # "" THEN path[3]
    ELSE ""

\* the tenant code the if / else-if chain of tenantMiddleware ends with
MiddlewareTenantCode(rq) ==
    IF rq.xTenant # "" THEN rq.xTenant
    ELSE IF rq.hostname # <<>> /\ rq.hostname # <<"localhost">>
            /\ ~IsLoopbackAddress(rq.hostname)
    THEN IF Len(rq.hostname) >= 2 /\ rq.hostname[1] \notin {"", "www", "api"}
         THEN rq.hostname[1] ELSE ""
    ELSE IF rq.paramsTenantCode # "" THEN rq.paramsTenantCode
    ELSE IF UnderTenantPath(rq.path) THEN PathMatch(rq.path)
    ELSE rq.queryTenant

\* the tenant code the chain of TenantService.getTenantFromRequest ends with
ServiceTenantCode(rq) ==
    IF rq.xTenant # "" THEN rq.xTenant
    ELSE IF rq.hostname # <<>> /\ rq.hostname # <<"localhost">>
    THEN IF rq.hostname[1] \notin {"", "www", "api"}
         THEN rq.hostname[1] ELSE ""
    ELSE IF rq.paramsTenantCode # "" THEN rq.paramsTenantCode
    ELSE rq.queryTenant

\* a whitelist that lets every path through
IsPublicRouteAny(path) == Len(path) >= 1

\* publicRoutes.some(route => req.path.startsWith(route))
IsPublicRoute(path) ==
    \/ Len(path) >= 2 /\ path[1] = "api"
          /\ path[2] \in {"health", "system", "admin", "tenants"}
    \/ Len(path) >= 1 /\ path[1] = "favicon.ico"

\* a lookup that forgets AND active = true
GetTenantAnyRow(code) == code \in TenantCodes /\ registry[code] # "absent"

\* TenantService.getTenant: the registry row of an active tenant, or null
GetTenant(code) == code \in TenantCodes /\ registry[code] = "active"

\* TenantService.schemaExists
SchemaExists(schema) == schema \in schemas

\* TenantService.getTenant as a statement on connection c
GetTenantOn(c, code) ==
    IF ctx[c] = "open" THEN code \in TenantCodes /\ RegView(c, code) = "active"
    ELSE GetTenant(code)

\* TenantService.schemaExists as a statement on connection c; its catch
\* block turns an SQL error into false
SchemaExistsOn(c, schema) ==
    /\ ctx[c] # "aborted"
    /\ IF ctx[c] = "open" THEN SchemaView(c, schema) ELSE SchemaExists(schema)

\* tenantMiddleware up to its first query: the tenant code is read from the
\* request; without one the request is answered or passed on
TenantMiddleware(r) ==
    /\ resolved.pc = "new"
    /\ req[r].pc \in {"idle", "done"}
    /\ LET code == MiddlewareTenantCode(http)
           res == [resolved EXCEPT !.detected = code]
       IN
       IF code = ""
       THEN /\ resolved' =
                 IF IsPublicRoute(http.path)
                 THEN [res EXCEPT !.pc = "next", !.status = 200]
                 ELSE [res EXCEPT !.pc = "responded", !.status = 400,
                                  !.error = "TENANT_REQUIRED"]
            /\ UNCHANGED <<req, pool>>
       ELSE /\ resolved' = [res EXCEPT !.pc = "getTenant"]
            /\ req' = [req EXCEPT ![r] =
                          [IdleReq EXCEPT !.op = "tenantMiddleware",
                                          !.pc = "getTenant"]]
            /\ pool' = Connect(pool, r)
    /\ UNCHANGED <<dbMax, prodattr, sales, stock, movs, nextId, updSeen, ctx, pstock, pmovs,
                   ncalls, pre, padmin, registry, schemas, tables, insights, http>>

\* tenant = await TenantService.getTenant(tenantCode)
MwGetTenant(r) ==
    /\ req[r].op = "tenantMiddleware" /\ req[r].pc = "getTenant" /\ Holding(r)
    /\ LET c == pool.hold[r]
           code == resolved.detected
       IN
       IF ctx[c] = "aborted"
       THEN /\ resolved' = [resolved EXCEPT !.pc = "responded", !.status = 500,
                                            !.error = "TENANT_VALIDATION_ERROR"]
            /\ req' = [req EXCEPT ![r].pc = "done"]
            /\ pool' = LastQuery(r)
       ELSE IF ~GetTenantOn(c, code)
       THEN /\ resolved' = [resolved EXCEPT !.pc = "responded", !.status = 404,
                                            !.error = "TENANT_NOT_FOUND"]
            /\ req' = [req EXCEPT ![r].pc = "done"]
            /\ pool' = LastQuery(r)
       ELSE /\ resolved' = [resolved EXCEPT !.pc = "schemaExists"]
            /\ req' = [req EXCEPT ![r].pc = "schemaExists"]
            /\ pool' = NextQuery(r)
    /\ UNCHANGED <<dbMax, prodattr, sales, stock, movs, nextId, updSeen, ctx, pstock, pmovs,
                   ncalls, pre, padmin, registry, schemas, tables, insights, http>>

\* schemaExists = await TenantService.schemaExists(tenant.schema_name), then
\* req.tenant, req.tenantCode, req.tenantSchema and next()
MwSchemaExists(r) ==
    /\ req[r].op = "tenantMiddleware" /\ req[r].pc = "schemaExists" /\ Holding(r)
    /\ LET c == pool.hold[r]
           code == resolved.detected
       IN
       resolved' =
          IF ~SchemaExistsOn(c, SchemaName(code))
          THEN [resolved EXCEPT !.pc = "responded", !.status = 500,
                                !.error = "TENANT_SCHEMA_MISSING"]
          ELSE [resolved EXCEPT !.pc = "next", !.status = 200,
                                !.tenantCode = code,
                                !.tenantSchema = SchemaName(code)]
    /\ req' = [req EXCEPT ![r].pc = "done"]
    /\ pool' = LastQuery(r)
    /\ UNCHANGED <<dbMax, prodattr, sales, stock, movs, nextId, updSeen, ctx, pstock, pmovs,
                   ncalls, pre, padmin, registry, schemas, tables, insights, http>>

\* the routers mounted behind requireTenant: /api/products, /api/clients, ...
\* and /api/tenant/:tenantCode/products, ...
TenantRouters ==
    {"products", "clients", "sales", "inventory", "insights", "dashboard"}

TenantScopedRoute(path) ==
    \/ Len(path) >= 2 /\ path[1] = "api" /\ path[2] \in TenantRouters
    \/ /\ Len(path) >= 4 /\ path[1] = "api" /\ path[2] = "tenant"
       /\ path[3] # "" /\ path[4] \in TenantRouters

\* the routes registered without requireTenant
OpenRoute(path) ==
    /\ Len(path) >= 2 /\ path[1] = "api"
    /\ path[2] \in {"health", "system", "admin"}

\* requireTenant: !req.tenant || !req.tenantSchema answers 400
RequireTenant(res) == res.tenantCode # "" /\ res.tenantSchema # ""

\* after next(): the route the path is mounted on, behind requireTenant for
\* the tenant routers, or the 404 handler
Route ==
    /\ resolved.pc = "next"
    /\ resolved' =
          IF TenantScopedRoute(http.path)
          THEN IF RequireTenant(resolved)
               THEN [resolved EXCEPT !.pc = "handled", !.handler = "tenant"]
               ELSE [resolved EXCEPT !.pc = "handled", !.status = 400,
                                     !.error = "TENANT_REQUIRED"]
          ELSE IF OpenRoute(http.path)
          THEN [resolved EXCEPT !.pc = "handled", !.handler = "open"]
          ELSE [resolved EXCEPT !.pc = "handled", !.status = 404,
                                !.error = "NOT_FOUND"]
    /\ UNCHANGED <<ledgerVars, registry, schemas, tables, insights, http>>

\* TenantService.getTenantFromRequest
GetTenantFromRequest ==
    /\ resolved.servicePc = "new"
    /\ LET code == ServiceTenantCode(http)
           res == [resolved EXCEPT !.serviceDetected = code]
       IN
       resolved' =
          IF code = ""
          THEN [res EXCEPT !.servicePc = "thrown",
                           !.serviceError = "Tenant code no proporcionado"]
          ELSE IF ~GetTenant(code)
          THEN [res EXCEPT !.servicePc = "thrown",
                           !.serviceError = "no encontrado o inactivo"]
          ELSE [res EXCEPT !.servicePc = "returned", !.serviceCode = code]
    /\ UNCHANGED <<ledgerVars, registry, schemas, tables, insights, http>>

-----------------------------------------------------------------------------
(* The tenant registry: TenantService behind /api/admin/tenants *)

\* tenant codes a caller may submit: registered or not, and one that does
\* not match /^[a-z0-9_]+$/
SubmittedCodes == TenantCodes \cup {"", "Bad-Code", "a b"}

\* the characters of a submitted tenant code
Spelling(code) ==
    CASE code = "a" -> <<"a">>
      [] code = "b" -> <<"b">>
      [] code = "Bad-Code" -> <<"B", "a", "d", "-", "C", "o", "d", "e">>
      [] code = "a b" -> <<"a", " ", "b">>
      [] OTHER -> <<>>

\* the characters of the class [a-z0-9_]
CodeAlphabet ==
    {"a", "b", "c", "d", "e", "f", "g", "h", "i", "j", "k", "l", "m", "n",
     "o", "p", "q", "r", "s", "t", "u", "v", "w", "x", "y", "z",
     "0", "1", "2", "3", "4", "5", "6", "7", "8", "9", "_"}

\* /^[a-z0-9_]+$/.test(tenant_code)
IsValidTenantCode(code) ==
    LET w == Spelling(code)
    IN Len(w) >= 1 /\ \A i \in 1..Len(w) : w[i] \in CodeAlphabet

\* another connection's transaction has written the registry row of the
\* code: statements that write the row wait
RegLocked(c, code) ==
    \E d \in Conns : d # c /\ ctx[d] = "open" /\ padmin[d].reg[code] # "same"

\* a statement on connection c writes the registry row of a code
RegWrite(c, code, val) ==
    IF ctx[c] = "open"
    THEN /\ padmin' = [padmin EXCEPT ![c].reg[code] = val]
         /\ UNCHANGED registry
    ELSE /\ registry' = [registry EXCEPT ![code] = val]
         /\ UNCHANGED padmin

\* PUT /:tenantCode/deactivate calls TenantService.deactivateTenant
StartDeactivate(r, code) ==
    /\ req[r].pc \in {"idle", "done"}
    /\ ncalls < MaxCalls
    /\ ncalls' = ncalls + 1
    /\ req' = [req EXCEPT ![r] =
                  [IdleReq EXCEPT !.op = "deactivateTenant", !.pc = "update",
                                  !.call = ncalls + 1, !.tenant_code = code]]
    /\ pre' = [pre EXCEPT ![r] = Snapshot(r)]
    /\ pool' = Connect(pool, r)
    /\ UNCHANGED <<dbMax, prodattr, sales, stock, movs, nextId, updSeen, ctx, pstock, pmovs,
                   padmin, webVars>>

\* UPDATE public.tenants SET active = false WHERE tenant_code = $1
\* RETURNING id, and the response of the route
DtUpdate(r) ==
    /\ req[r].op = "deactivateTenant" /\ req[r].pc = "update" /\ Holding(r)
    /\ LET c == pool.hold[r]
           code == req[r].tenant_code
       IN
       IF ctx[c] = "aborted"
       THEN /\ req' = [req EXCEPT ![r].pc = "done", ![r].err = "sql",
                                  ![r].result = "DEACTIVATE_TENANT_ERROR"]
            /\ UNCHANGED <<registry, padmin>>
       ELSE IF code \notin TenantCodes
       THEN /\ req' = [req EXCEPT ![r].pc = "done",
                                  ![r].result = "TENANT_NOT_FOUND"]
            /\ UNCHANGED <<registry, padmin>>
       ELSE /\ ~RegLocked(c, code)
            /\ IF RegView(c, code) = "absent"
               THEN /\ req' = [req EXCEPT ![r].pc = "done",
                                          ![r].result = "TENANT_NOT_FOUND"]
                    /\ UNCHANGED <<registry, padmin>>
               ELSE /\ req' = [req EXCEPT ![r].pc = "done",
                                          ![r].result = "success"]
                    /\ RegWrite(c, code, "inactive")
    /\ pool' = LastQuery(r)
    /\ UNCHANGED <<dbMax, prodattr, sales, stock, movs, nextId, updSeen, ctx, pstock, pmovs,
                   ncalls, pre, schemas, tables, insights, http, resolved>>

\* a lookup that passes over inactive tenants
ExistingActiveTenantOn(c, code) == RegView(c, code) = "active"

\* SELECT id FROM public.tenants WHERE tenant_code = $1 returns a row
ExistingTenantOn(c, code) == RegView(c, code) # "absent"

\* TenantService.createTenant(tenantData) up to its BEGIN
StartCreateTenant(r, code) ==
    /\ req[r].pc \in {"idle", "done"}
    /\ ncalls < MaxCalls
    /\ ncalls' = ncalls + 1
    /\ pre' = [pre EXCEPT ![r] = Snapshot(r)]
    /\ req' = [req EXCEPT ![r] =
                  [IdleReq EXCEPT !.op = "createTenant", !.pc = "begin",
                                  !.call = ncalls + 1, !.tenant_code = code]]
    /\ pool' = Connect(pool, r)
    /\ UNCHANGED <<dbMax, prodattr, sales, stock, movs, nextId, updSeen, ctx, pstock, pmovs,
                   padmin, webVars>>

\* POST /: 400 VALIDATION_ERROR without tenant_code or company_name, 400
\* INVALID_TENANT_CODE when the code does not match, or
\* TenantService.createTenant(tenantData)
RouteCreate(r, code, company_name) ==
    IF code = "" \/ company_name = "" \/ ~IsValidTenantCode(code)
    THEN /\ req[r].pc \in {"idle", "done"}
         /\ ncalls < MaxCalls
         /\ ncalls' = ncalls + 1
         /\ pre' = [pre EXCEPT ![r] = Snapshot(r)]
         /\ req' = [req EXCEPT ![r] =
                       [IdleReq EXCEPT
                           !.op = "createTenant", !.pc = "done",
                           !.call = ncalls + 1, !.tenant_code = code,
                           !.result = IF code = "" \/ company_name = ""
                                      THEN "VALIDATION_ERROR"
                                      ELSE "INVALID_TENANT_CODE"]]
         /\ UNCHANGED <<dbMax, prodattr, sales, stock, movs, nextId, updSeen, ctx, pstock,
                        pmovs, pool, padmin, webVars>>
    ELSE StartCreateTenant(r, code)

\* const client = await query('BEGIN');   (outside the try block)
CtBegin(r) ==
    /\ req[r].op = "createTenant" /\ req[r].pc = "begin" /\ Holding(r)
    /\ LET c == pool.hold[r] IN
       IF ctx[c] = "aborted"
       THEN /\ req' = [req EXCEPT ![r].pc = "done", ![r].err = "sql",
                                  ![r].result = "CREATE_TENANT_ERROR"]
            /\ pool' = LastQuery(r)
            /\ UNCHANGED ctx
       ELSE /\ ctx' = [ctx EXCEPT ![c] = "open"]
            /\ req' = [req EXCEPT ![r].pc = "select"]
            /\ pool' = NextQuery(r)
    /\ UNCHANGED <<dbMax, prodattr, sales, stock, movs, nextId, updSeen, pstock, pmovs, ncalls,
                   pre, padmin, webVars>>

\* the test of tenant_code, then
\* SELECT id FROM public.tenants WHERE tenant_code = $1
CtSelect(r) ==
    /\ req[r].op = "createTenant" /\ req[r].pc = "select" /\ Holding(r)
    /\ LET c == pool.hold[r]
           code == req[r].tenant_code
       IN
       IF ~IsValidTenantCode(code)
       THEN req' = [req EXCEPT ![r].pc = "rollback", ![r].err = "invalid_code"]
       ELSE IF ctx[c] = "aborted"
       THEN req' = [req EXCEPT ![r].pc = "rollback", ![r].err = "sql"]
       ELSE IF ExistingTenantOn(c, code)
       THEN req' = [req EXCEPT ![r].pc = "rollback", ![r].err = "exists"]
       ELSE req' = [req EXCEPT ![r].pc = "insert"]
    /\ pool' = NextQuery(r)
    /\ UNCHANGED <<dbMax, prodattr, sales, stock, movs, nextId, updSeen, ctx, pstock, pmovs,
                   ncalls, pre, padmin, webVars>>

\* INSERT INTO public.tenants (...) RETURNING *; tenant_code is UNIQUE
CtInsert(r) ==
    /\ req[r].op = "createTenant" /\ req[r].pc = "insert" /\ Holding(r)
    /\ LET c == pool.hold[r]
           code == req[r].tenant_code
       IN
       /\ ctx[c] # "aborted" => ~RegLocked(c, code)
       /\ IF ctx[c] = "aborted" \/ RegView(c, code) # "absent"
          THEN /\ req' = [req EXCEPT ![r].pc = "rollback", ![r].err = "sql"]
               /\ ctx' = [ctx EXCEPT ![c] = AfterError(c)]
               /\ UNCHANGED <<registry, padmin>>
          ELSE /\ RegWrite(c, code, "active")
               /\ req' = [req EXCEPT ![r].pc = "schema"]
               /\ UNCHANGED ctx
    /\ pool' = NextQuery(r)
    /\ UNCHANGED <<dbMax, prodattr, sales, stock, movs, nextId, updSeen, pstock, pmovs, ncalls,
                   pre, schemas, tables, insights, http, resolved>>

\* CREATE SCHEMA IF NOT EXISTS "tenant_<tenant_code>"
CtCreateSchema(r) ==
    /\ req[r].op = "createTenant" /\ req[r].pc = "schema" /\ Holding(r)
    /\ LET c == pool.hold[r]
           t == SchemaName(req[r].tenant_code)
       IN
       IF ctx[c] = "aborted"
       THEN /\ req' = [req EXCEPT ![r].pc = "rollback", ![r].err = "sql"]
            /\ UNCHANGED <<schemas, padmin>>
       ELSE /\ ~DdlPending(c, t)
            /\ req' = [req EXCEPT ![r].pc = "tables"]
            /\ IF SchemaView(c, t) THEN UNCHANGED <<schemas, padmin>>
               ELSE IF ctx[c] = "open"
               THEN /\ padmin' = [padmin EXCEPT ![c].sch[t] = "present"]
                    /\ UNCHANGED schemas
               ELSE /\ schemas' = schemas \cup {t}
                    /\ UNCHANGED padmin
    /\ pool' = NextQuery(r)
    /\ UNCHANGED <<dbMax, prodattr, sales, stock, movs, nextId, updSeen, ctx, pstock, pmovs,
                   ncalls, pre, registry, tables, insights, http, resolved>>

\* await this.createTenantSchema(schemaName): the adapted base schema in one
\* query
CtTables(r) ==
    /\ req[r].op = "createTenant" /\ req[r].pc = "tables" /\ Holding(r)
    /\ LET c == pool.hold[r]
           t == SchemaName(req[r].tenant_code)
           run == RunScript(AdaptScript(TenantBaseSchema), TablesView(c, t))
       IN
       /\ ctx[c] # "aborted" => ~DdlPending(c, t)
       /\ IF ctx[c] = "aborted" \/ ~SchemaView(c, t) \/ ~run.ok
          THEN /\ req' = [req EXCEPT ![r].pc = "rollback", ![r].err = "sql"]
               /\ ctx' = [ctx EXCEPT ![c] = AfterError(c)]
               /\ UNCHANGED <<tables, padmin>>
          ELSE /\ req' = [req EXCEPT ![r].pc = "commit"]
               /\ UNCHANGED ctx
               /\ IF ctx[c] = "open"
                  THEN /\ padmin' = [padmin EXCEPT ![c].tbl[t] =
                                        [set |-> TRUE, val |-> run.rels]]
                       /\ UNCHANGED tables
                  ELSE /\ tables' = [tables EXCEPT ![t] = run.rels]
                       /\ UNCHANGED padmin
    /\ pool' = NextQuery(r)
    /\ UNCHANGED <<dbMax, prodattr, sales, stock, movs, nextId, updSeen, pstock, pmovs, ncalls,
                   pre, registry, schemas, insights, http, resolved>>

\* await query('COMMIT'); return { ...tenant, schema_name }
CtCommit(r) ==
    /\ req[r].op = "createTenant" /\ req[r].pc = "commit" /\ Holding(r)
    /\ DoCommit(pool.hold[r])
    /\ EndTxn(pool.hold[r])
    /\ req' = [req EXCEPT ![r].pc = "done", ![r].result = "created"]
    /\ pool' = LastQuery(r)
    /\ UNCHANGED <<dbMax, prodattr, nextId, ncalls, pre, http, resolved>>

\* catch (error) { await query('ROLLBACK'); throw new Error(`Error creando
\* tenant: ${error.message}`) }, and the response of the route: 409 when
\* the message includes 'Ya existe un tenant', else 500
CtRollback(r) ==
    /\ req[r].op = "createTenant" /\ req[r].pc = "rollback" /\ Holding(r)
    /\ EndTxn(pool.hold[r])
    /\ req' = [req EXCEPT ![r].pc = "done",
                          ![r].result = IF req[r].err = "exists"
                                        THEN "TENANT_EXISTS"
                                        ELSE "CREATE_TENANT_ERROR"]
    /\ pool' = LastQuery(r)
    /\ UNCHANGED <<dbMax, prodattr, sales, stock, movs, nextId, updSeen, ncalls, pre, webVars>>

\* the values of ?confirm= a caller sends
Confirmations == {"", "yes", "DELETE_EVERYTHING"}

\* any non-empty ?confirm= is taken for a confirmation
ConfirmationGivenAny(confirm) == confirm # ""

\* the route's test of ?confirm=
ConfirmationGiven(confirm) == confirm = "DELETE_EVERYTHING"

\* TenantService.deleteTenant(tenantCode, confirmDelete) up to its BEGIN,
\* called by the route (with the ?confirm= it received) or directly:
\* without confirmDelete it throws before any statement
EnterDeleteTenant(cap, r, code, confirmDelete, route, confirm) ==
    /\ req[r].pc \in {"idle", "done"}
    /\ ncalls < cap
    /\ ncalls' = ncalls + 1
    /\ pre' = [pre EXCEPT ![r] = Snapshot(r)]
    /\ LET call == [IdleReq EXCEPT !.op = "deleteTenant",
                                   !.call = ncalls + 1, !.tenant_code = code,
                                   !.route = route, !.confirm = confirm,
                                   !.confirmDelete = confirmDelete]
       IN
       IF ~confirmDelete
       THEN /\ req' = [req EXCEPT ![r] =
                          [call EXCEPT !.pc = "done", !.err = "confirm",
                                       !.result = "DELETE_TENANT_ERROR"]]
            /\ UNCHANGED pool
       ELSE /\ req' = [req EXCEPT ![r] = [call EXCEPT !.pc = "begin"]]
            /\ pool' = Connect(pool, r)
    /\ UNCHANGED <<dbMax, prodattr, sales, stock, movs, nextId, updSeen, ctx, pstock, pmovs,
                   padmin, webVars>>

\* a direct call of TenantService.deleteTenant
StartDeleteTenant(r, code, confirmDelete) ==
    EnterDeleteTenant(MaxCalls, r, code, confirmDelete, FALSE, "")

\* DELETE /:tenantCode?confirm=...: 400 CONFIRMATION_REQUIRED, or
\* TenantService.deleteTenant(tenantCode, true)
RouteDeleteWithin(cap, r, code, confirm) ==
    IF ~ConfirmationGiven(confirm)
    THEN /\ req[r].pc \in {"idle", "done"}
         /\ ncalls < cap
         /\ ncalls' = ncalls + 1
         /\ pre' = [pre EXCEPT ![r] = Snapshot(r)]
         /\ req' = [req EXCEPT ![r] =
                       [IdleReq EXCEPT !.op = "deleteTenant", !.pc = "done",
                                       !.call = ncalls + 1,
                                       !.tenant_code = code,
                                       !.route = TRUE, !.confirm = confirm,
                                       !.result = "CONFIRMATION_REQUIRED"]]
         /\ UNCHANGED <<dbMax, prodattr, sales, stock, movs, nextId, updSeen, ctx, pstock,
                        pmovs, pool, padmin, webVars>>
    ELSE EnterDeleteTenant(cap, r, code, TRUE, TRUE, confirm)

RouteDelete(r, code, confirm) == RouteDeleteWithin(MaxCalls, r, code, confirm)

\* const client = await query('BEGIN');   (outside the try block)
DlBegin(r) ==
    /\ req[r].op = "deleteTenant" /\ req[r].pc = "begin" /\ Holding(r)
    /\ LET c == pool.hold[r] IN
       IF ctx[c] = "aborted"
       THEN /\ req' = [req EXCEPT ![r].pc = "done", ![r].err = "sql",
                                  ![r].result = "DELETE_TENANT_ERROR"]
            /\ pool' = LastQuery(r)
            /\ UNCHANGED ctx
       ELSE /\ ctx' = [ctx EXCEPT ![c] = "open"]
            /\ req' = [req EXCEPT ![r].pc = "getTenant"]
            /\ pool' = NextQuery(r)
    /\ UNCHANGED <<dbMax, prodattr, sales, stock, movs, nextId, updSeen, pstock, pmovs, ncalls,
                   pre, padmin, webVars>>

\* const tenant = await this.getTenant(tenantCode); if (!tenant) throw
DlGetTenant(r) ==
    /\ req[r].op = "deleteTenant" /\ req[r].pc = "getTenant" /\ Holding(r)
    /\ LET c == pool.hold[r] IN
       IF ctx[c] = "aborted"
       THEN req' = [req EXCEPT ![r].pc = "rollback", ![r].err = "sql"]
       ELSE IF ~GetTenantOn(c, req[r].tenant_code)
       THEN req' = [req EXCEPT ![r].pc = "rollback", ![r].err = "not_found"]
       ELSE req' = [req EXCEPT ![r].pc = "drop"]
    /\ pool' = NextQuery(r)
    /\ UNCHANGED <<dbMax, prodattr, sales, stock, movs, nextId, updSeen, ctx, pstock, pmovs,
                   ncalls, pre, padmin, webVars>>

\* a statement on connection c drops the schema
SchemaDrop(c, t) ==
    IF ctx[c] = "open"
    THEN /\ padmin' = [padmin EXCEPT ![c].sch[t] = "absent",
                                     ![c].tbl[t] = [set |-> TRUE, val |-> {}]]
         /\ UNCHANGED <<schemas, tables>>
    ELSE /\ schemas' = schemas \ {t}
         /\ tables' = [tables EXCEPT ![t] = {}]
         /\ UNCHANGED padmin

\* DROP SCHEMA IF EXISTS "<schema_name>" CASCADE
DlDrop(r) ==
    /\ req[r].op = "deleteTenant" /\ req[r].pc = "drop" /\ Holding(r)
    /\ LET c == pool.hold[r]
           t == SchemaName(req[r].tenant_code)
       IN
       IF ctx[c] = "aborted"
       THEN /\ req' = [req EXCEPT ![r].pc = "rollback", ![r].err = "sql"]
            /\ UNCHANGED <<schemas, tables, padmin>>
       ELSE /\ ~InUse(c, t)
            /\ ~DdlPending(c, t)
            /\ SchemaDrop(c, t)
            /\ req' = [req EXCEPT ![r].pc = "delete"]
    /\ pool' = NextQuery(r)
    /\ UNCHANGED <<dbMax, prodattr, sales, stock, movs, nextId, updSeen, ctx, pstock, pmovs,
                   ncalls, pre, registry, insights, http, resolved>>

\* the DROP waits for the locks of the schema's tables until
\* statement_timeout cancels it
DlDropTimeout(r) ==
    /\ req[r].op = "deleteTenant" /\ req[r].pc = "drop" /\ Holding(r)
    /\ LET c == pool.hold[r]
           t == SchemaName(req[r].tenant_code)
       IN
       /\ ctx[c] # "aborted"
       /\ InUse(c, t) \/ DdlPending(c, t)
       /\ ctx' = [ctx EXCEPT ![c] = AfterError(c)]
    /\ req' = [req EXCEPT ![r].pc = "rollback", ![r].err = "timeout"]
    /\ pool' = NextQuery(r)
    /\ UNCHANGED <<dbMax, prodattr, sales, stock, movs, nextId, updSeen, pstock, pmovs, ncalls,
                   pre, padmin, webVars>>

\* DELETE FROM public.tenants WHERE tenant_code = $1
DlDelete(r) ==
    /\ req[r].op = "deleteTenant" /\ req[r].pc = "delete" /\ Holding(r)
    /\ LET c == pool.hold[r]
           code == req[r].tenant_code
       IN
       IF ctx[c] = "aborted"
       THEN /\ req' = [req EXCEPT ![r].pc = "rollback", ![r].err = "sql"]
            /\ UNCHANGED <<registry, padmin>>
       ELSE /\ ~RegLocked(c, code)
            /\ RegWrite(c, code, "absent")
            /\ req' = [req EXCEPT ![r].pc = "commit"]
    /\ pool' = NextQuery(r)
    /\ UNCHANGED <<dbMax, prodattr, sales, stock, movs, nextId, updSeen, ctx, pstock, pmovs,
                   ncalls, pre, schemas, tables, insights, http, resolved>>

\* await query('COMMIT'); return true
DlCommit(r) ==
    /\ req[r].op = "deleteTenant" /\ req[r].pc = "commit" /\ Holding(r)
    /\ DoCommit(pool.hold[r])
    /\ EndTxn(pool.hold[r])
    /\ req' = [req EXCEPT ![r].pc = "done", ![r].result = "success"]
    /\ pool' = LastQuery(r)
    /\ UNCHANGED <<dbMax, prodattr, nextId, ncalls, pre, http, resolved>>

\* catch (error) { await query('ROLLBACK'); throw ... }
DlRollback(r) ==
    /\ req[r].op = "deleteTenant" /\ req[r].pc = "rollback" /\ Holding(r)
    /\ EndTxn(pool.hold[r])
    /\ req' = [req EXCEPT ![r].pc = "done",
                          ![r].result = "DELETE_TENANT_ERROR"]
    /\ pool' = LastQuery(r)
    /\ UNCHANGED <<dbMax, prodattr, sales, stock, movs, nextId, updSeen, ncalls, pre, webVars>>

\* the next request reaches the server
Arrive(rq) ==
    /\ resolved.pc \in {"responded", "handled"}
    /\ http' = rq
    /\ resolved' = Unresolved
    /\ UNCHANGED <<ledgerVars, registry, schemas, tables, insights>>

-----------------------------------------------------------------------------
(* Initial state: the pool is empty, every product holds its creation      *)
(* stock and no movement has been recorded.                                *)

Init ==
    /\ dbMax \in 1..MaxPool
    /\ stock = [t \in Tenants |-> [p \in Products |-> InitialStock]]
    /\ movs = {}
    /\ nextId = 1
    /\ updSeen = {}
    /\ ctx = [c \in Conns |-> "none"]
    /\ pstock = [c \in Conns |-> NoWrites]
    /\ pmovs = [c \in Conns |-> {}]
    /\ pool = EmptyPool
    /\ req = [r \in Req |-> IdleReq]
    /\ ncalls = 0
    /\ padmin = [c \in Conns |-> NoAdminWrites]
    /\ registry = [code \in TenantCodes |-> "active"]
    /\ schemas = Tenants
    /\ tables = [t \in Tenants |-> BaseRelations]
    /\ prodattr = [t \in Tenants |-> [p \in Products |-> DefaultAttr]]
    /\ insights = {}
    /\ sales = {}
    /\ pre = [r \in Req |-> Snapshot(r)]
    /\ http = NoRequest
    /\ resolved = Unresolved

\* every request has room in the pool
InitAmple == Init /\ dbMax = MaxPool

\* any registry, any set of schemas, any request; the ledger is at rest
Hostnames ==
    {<<>>, <<"localhost">>, <<"127", "0", "0", "1">>, <<"intranet">>,
     <<"a", "fluxionai", "com">>, <<"b", "fluxionai", "com">>,
     <<"www", "fluxionai", "com">>, <<"api", "fluxionai", "com">>}

Paths ==
    {<<"api", "products">>, <<"api", "health">>, <<"api", "reports">>,
     <<"api", "tenant", "a", "products">>, <<"api", "tenant", "b">>}

Signals == {"", "a", "b", "zz"}

InitResolve ==
    /\ dbMax = MaxPool
    /\ stock = [t \in Tenants |-> [p \in Products |-> InitialStock]]
    /\ movs = {}
    /\ nextId = 1
    /\ updSeen = {}
    /\ ctx = [c \in Conns |-> "none"]
    /\ pstock = [c \in Conns |-> NoWrites]
    /\ pmovs = [c \in Conns |-> {}]
    /\ pool = EmptyPool
    /\ req = [r \in Req |-> IdleReq]
    /\ ncalls = 0
    /\ padmin = [c \in Conns |-> NoAdminWrites]
    /\ registry \in [TenantCodes -> {"absent", "inactive", "active"}]
    /\ schemas \in SUBSET Tenants
    /\ tables = [t \in Tenants |-> IF t \in schemas THEN BaseRelations ELSE {}]
    /\ prodattr = [t \in Tenants |-> [p \in Products |-> DefaultAttr]]
    /\ insights = {}
    /\ sales = {}
    /\ pre = [r \in Req |-> Snapshot(r)]
    /\ http \in {HttpRequest(h, host, prm, path, q) :
                    h \in Signals, host \in Hostnames, prm \in {"", "a", "b"},
                    path \in Paths, q \in {"", "a", "b"}}
    /\ resolved = Unresolved

NextResolve ==
    \/ TenantMiddleware(1)
    \/ MwGetTenant(1)
    \/ MwSchemaExists(1)
    \/ Route
    \/ GetTenantFromRequest

SpecResolve == InitResolve /\ [][NextResolve]_vars

-----------------------------------------------------------------------------
(* Concurrent writers: requests in both slots record inbound and outbound  *)
(* movements of product 1 of either tenant.                                *)

NextConcurrent ==
    \/ \E r \in Req, t \in Tenants, ty \in {"entrada", "salida"}, q \in 1..MaxQty :
          StartAddMovement(r, t, 1, ty, q, "ajuste")
    \/ \E r \in Req : AmBegin(r)
    \/ \E r \in Req : AmSelect(r)
    \/ \E r \in Req : AmInsert(r)
    \/ \E r \in Req : AmUpdate(r)
    \/ \E r \in Req : AmUpdateTimeout(r)
    \/ \E r \in Req : AmCommit(r)
    \/ \E r \in Req : AmRollback(r)
    \/ Crash

\* every request has a connection of its own
SpecConcurrent == InitAmple /\ [][NextConcurrent]_vars

\* the pool may be smaller than the number of requests in flight
SpecLoaded == Init /\ [][NextConcurrent]_vars

-----------------------------------------------------------------------------
(* One request at a time: movements of every kind, on known and unknown    *)
(* products of either tenant.                                              *)

NextMovement ==
    \/ \E t \in Tenants, p \in {1, 3}, ty \in MovementTypes,
          q \in (-MaxQty)..MaxQty, ref \in {"ajuste", "manual"} :
          StartAddMovement(1, t, p, ty, q, ref)
    \/ AmBegin(1)
    \/ AmSelect(1)
    \/ AmInsert(1)
    \/ AmUpdate(1)
    \/ AmCommit(1)
    \/ AmRollback(1)

SpecMovement == InitAmple /\ [][NextMovement]_vars

(* One request at a time on tenant_a: stock comes in, goes out and is set   *)
(* by an external count, on a known and an unknown product.                *)

NextOutbound ==
    \/ \E p \in {1, 3}, ty \in {"entrada", "salida", "sincronizacion"},
          q \in (-1)..MaxQty :
          StartAddMovement(1, "tenant_a", p, ty, q, "ajuste")
    \/ AmBegin(1)
    \/ AmSelect(1)
    \/ AmInsert(1)
    \/ AmUpdate(1)
    \/ AmCommit(1)
    \/ AmRollback(1)

SpecOutbound == InitAmple /\ [][NextOutbound]_vars

(* One request at a time: bulk syncs of tenant_a. *)

NextSync ==
    \/ \E items \in SyncBatches : StartSync(1, "tenant_a", items)
    \/ SyBegin(1)
    \/ SySelect(1)
    \/ SyInsert(1)
    \/ SyUpdate(1)
    \/ SyCommit(1)

SpecSync == InitAmple /\ [][NextSync]_vars

(* One client that submits a batch to tenant_a and then submits the same   *)
(* batch again.                                                            *)

NextResync ==
    \/ \E items \in (IF req[1].op = "syncInventory" THEN {req[1].items}
                      ELSE SyncBatches) :
          StartSync(1, "tenant_a", items)
    \/ SyBegin(1)
    \/ SySelect(1)
    \/ SyInsert(1)
    \/ SyUpdate(1)
    \/ SyCommit(1)

SpecResync == InitAmple /\ [][NextResync]_vars

-----------------------------------------------------------------------------
(* Tenants are deactivated while requests with an X-Tenant header arrive   *)
(* one after the other.                                                    *)

HeaderRequests ==
    {HttpRequest(h, <<"localhost">>, "", path, "") :
        h \in Signals, path \in {<<"api", "products">>, <<"api", "health">>}}

NextDeactivate ==
    \/ \E code \in TenantCodes : StartDeactivate(1, code)
    \/ DtUpdate(1)
    \/ \E rq \in HeaderRequests : Arrive(rq)
    \/ TenantMiddleware(2)
    \/ MwGetTenant(2)
    \/ MwSchemaExists(2)
    \/ Route

SpecDeactivate == InitAmple /\ [][NextDeactivate]_vars

-----------------------------------------------------------------------------
(* A stock movement in one slot while requests pass the tenant middleware  *)
(* in the other; the pool may have a single connection.                    *)

NextShared ==
    \/ \E t \in Tenants, q \in 1..MaxQty, ref \in {"ajuste", "manual"} :
          StartAddMovement(1, t, 1, "entrada", q, ref)
    \/ AmBegin(1)
    \/ AmSelect(1)
    \/ AmInsert(1)
    \/ AmUpdate(1)
    \/ AmCommit(1)
    \/ AmRollback(1)
    \/ \E rq \in HeaderRequests : Arrive(rq)
    \/ TenantMiddleware(2)
    \/ MwGetTenant(2)
    \/ MwSchemaExists(2)
    \/ Route

SpecShared == Init /\ [][NextShared]_vars

-----------------------------------------------------------------------------
(* A tenant is deleted in one slot while a stock movement of a tenant runs *)
(* in the other.                                                           *)

NextTeardown ==
    \/ \E code \in TenantCodes : RouteDelete(1, code, "DELETE_EVERYTHING")
    \/ DlBegin(1)
    \/ DlGetTenant(1)
    \/ DlDrop(1)
    \/ DlDropTimeout(1)
    \/ DlDelete(1)
    \/ DlCommit(1)
    \/ DlRollback(1)
    \/ \E t \in Tenants, p \in ProductIds, q \in 1..MaxQty,
          ref \in {"ajuste", "manual"} :
          StartAddMovement(2, t, p, "entrada", q, ref)
    \/ AmBegin(2)
    \/ AmSelect(2)
    \/ AmInsert(2)
    \/ AmUpdate(2)
    \/ AmCommit(2)
    \/ AmRollback(2)

\* every request has a connection of its own
SpecTeardown == InitAmple /\ [][NextTeardown]_vars

\* the pool may be smaller than the number of requests in flight
SpecTeardownLoaded == Init /\ [][NextTeardown]_vars

\* two movements are in flight on a pool of one connection when the delete
\* arrives
NextTeardownBusy ==
    \/ \E code \in TenantCodes :
          RouteDeleteWithin(MaxBusyCalls, 1, code, "DELETE_EVERYTHING")
    \/ DlBegin(1)
    \/ DlGetTenant(1)
    \/ DlDrop(1)
    \/ DlDelete(1)
    \/ DlCommit(1)
    \/ DlRollback(1)
    \/ \E r \in {2, 3}, t \in Tenants, p \in ProductIds :
          StartAddMovementWithin(MaxBusyCalls, r, t, p, "entrada", 1, "ajuste")
    \/ \E r \in {2, 3} : AmBegin(r)
    \/ \E r \in {2, 3} : AmSelect(r)
    \/ \E r \in {2, 3} : AmInsert(r)
    \/ \E r \in {2, 3} : AmUpdate(r)
    \/ \E r \in {2, 3} : AmCommit(r)
    \/ \E r \in {2, 3} : AmRollback(r)

\* the pool has a single connection
InitSaturated == Init /\ dbMax = 1

SpecTeardownBusy == InitSaturated /\ [][NextTeardownBusy]_vars

-----------------------------------------------------------------------------
(* Tenants are created one call after the other, through the route and by  *)
(* direct calls of the service, on a registry of absent, inactive and      *)
(* active tenants.                                                         *)

InitRegistry ==
    /\ dbMax = MaxPool
    /\ stock = [t \in Tenants |-> [p \in Products |-> InitialStock]]
    /\ movs = {}
    /\ nextId = 1
    /\ updSeen = {}
    /\ ctx = [c \in Conns |-> "none"]
    /\ pstock = [c \in Conns |-> NoWrites]
    /\ pmovs = [c \in Conns |-> {}]
    /\ pool = EmptyPool
    /\ req = [r \in Req |-> IdleReq]
    /\ ncalls = 0
    /\ padmin = [c \in Conns |-> NoAdminWrites]
    /\ registry \in [TenantCodes -> {"absent", "inactive", "active"}]
    /\ schemas = {SchemaName(code) : code \in {k \in TenantCodes : registry[k] # "absent"}}
    /\ tables = [t \in Tenants |-> IF t \in schemas THEN BaseRelations ELSE {}]
    /\ prodattr = [t \in Tenants |-> [p \in Products |-> DefaultAttr]]
    /\ insights = {}
    /\ sales = {}
    /\ pre = [r \in Req |-> Snapshot(r)]
    /\ http = NoRequest
    /\ resolved = Unresolved

NextCreate ==
    \/ \E code \in SubmittedCodes, company_name \in {"", "Acme"} :
          RouteCreate(1, code, company_name)
    \/ \E code \in SubmittedCodes : StartCreateTenant(1, code)
    \/ CtBegin(1)
    \/ CtSelect(1)
    \/ CtInsert(1)
    \/ CtCreateSchema(1)
    \/ CtTables(1)
    \/ CtCommit(1)
    \/ CtRollback(1)

SpecCreate == InitRegistry /\ [][NextCreate]_vars

\* createTenant also finds partitions that have no registry record: the
\* schema alone (CREATE SCHEMA done, tables not) or the schema with its
\* tables
InitProvision ==
    /\ dbMax = MaxPool
    /\ stock = [t \in Tenants |-> [p \in Products |-> InitialStock]]
    /\ movs = {}
    /\ nextId = 1
    /\ updSeen = {}
    /\ ctx = [c \in Conns |-> "none"]
    /\ pstock = [c \in Conns |-> NoWrites]
    /\ pmovs = [c \in Conns |-> {}]
    /\ pool = EmptyPool
    /\ req = [r \in Req |-> IdleReq]
    /\ ncalls = 0
    /\ padmin = [c \in Conns |-> NoAdminWrites]
    /\ registry \in [TenantCodes -> {"absent", "active"}]
    /\ schemas \in SUBSET Tenants
    /\ \A code \in TenantCodes :
          registry[code] # "absent" => SchemaName(code) \in schemas
    /\ tables \in [Tenants -> {{}, BaseRelations}]
    /\ \A t \in Tenants : t \notin schemas => tables[t] = {}
    /\ \A code \in TenantCodes :
          registry[code] # "absent" => tables[SchemaName(code)] = BaseRelations
    /\ prodattr = [t \in Tenants |-> [p \in Products |-> DefaultAttr]]
    /\ insights = {}
    /\ sales = {}
    /\ pre = [r \in Req |-> Snapshot(r)]
    /\ http = NoRequest
    /\ resolved = Unresolved

SpecProvision == InitProvision /\ [][NextCreate]_vars

\* Tenant b is registered and code a is free: it has no partition, or the
\* partition an earlier attempt left without a registry record.  The pool has
\* a single connection.
InitOneTenant ==
    /\ dbMax = 1
    /\ stock = [t \in Tenants |-> [p \in Products |-> InitialStock]]
    /\ movs = {}
    /\ nextId = 1
    /\ updSeen = {}
    /\ ctx = [c \in Conns |-> "none"]
    /\ pstock = [c \in Conns |-> NoWrites]
    /\ pmovs = [c \in Conns |-> {}]
    /\ pool = EmptyPool
    /\ req = [r \in Req |-> IdleReq]
    /\ ncalls = 0
    /\ padmin = [c \in Conns |-> NoAdminWrites]
    /\ registry = [code \in TenantCodes |->
                      IF code = "b" THEN "active" ELSE "absent"]
    /\ schemas \in {{SchemaName("b")}, Tenants}
    /\ tables = [t \in Tenants |-> IF t \in schemas THEN BaseRelations ELSE {}]
    /\ prodattr = [t \in Tenants |-> [p \in Products |-> DefaultAttr]]
    /\ insights = {}
    /\ sales = {}
    /\ pre = [r \in Req |-> Snapshot(r)]
    /\ http = NoRequest
    /\ resolved = Unresolved

\* tenant a is created while two movements of tenant b are in flight, one of
\* them with a reference_type the ledger refuses
NextCreateBusy ==
    \/ RouteCreate(1, "a", "Acme")
    \/ CtBegin(1)
    \/ CtSelect(1)
    \/ CtInsert(1)
    \/ CtCreateSchema(1)
    \/ CtTables(1)
    \/ CtCommit(1)
    \/ CtRollback(1)
    \/ \E r \in {2, 3}, ref \in {"ajuste", "manual"} :
          StartAddMovementWithin(MaxBusyCalls, r, SchemaName("b"), 1, "entrada",
                                 1, ref)
    \/ \E r \in {2, 3} : AmBegin(r)
    \/ \E r \in {2, 3} : AmSelect(r)
    \/ \E r \in {2, 3} : AmInsert(r)
    \/ \E r \in {2, 3} : AmUpdate(r)
    \/ \E r \in {2, 3} : AmCommit(r)
    \/ \E r \in {2, 3} : AmRollback(r)

SpecCreateBusy == InitOneTenant /\ [][NextCreateBusy]_vars

-----------------------------------------------------------------------------
(* Tenants are deleted one call after the other, through the route with    *)
(* any ?confirm= and by direct calls of the service.                       *)

NextDelete ==
    \/ \E code \in TenantCodes, confirm \in Confirmations :
          RouteDelete(1, code, confirm)
    \/ \E code \in TenantCodes, confirmDelete \in BOOLEAN :
          StartDeleteTenant(1, code, confirmDelete)
    \/ DlBegin(1)
    \/ DlGetTenant(1)
    \/ DlDrop(1)
    \/ DlDelete(1)
    \/ DlCommit(1)
    \/ DlRollback(1)

SpecDelete == InitRegistry /\ [][NextDelete]_vars

-----------------------------------------------------------------------------
(* The inventory rules run one call after the other on products of any     *)
(* stock, threshold and active flag.                                       *)

StockLevels == 0..(MaxQty + 1)

Attrs ==
    {ProductAttr(active, min, max) :
        active \in BOOLEAN, min \in 0..MaxQty, max \in {1, MaxQty + 1}}

InitInsights ==
    /\ dbMax = MaxPool
    /\ stock \in {[t \in Tenants |-> IF t = "tenant_a" THEN st
                                      ELSE [p \in Products |-> InitialStock]] :
                      st \in [Products -> StockLevels]}
    /\ movs = {}
    /\ nextId = 1
    /\ updSeen = {}
    /\ ctx = [c \in Conns |-> "none"]
    /\ pstock = [c \in Conns |-> NoWrites]
    /\ pmovs = [c \in Conns |-> {}]
    /\ pool = EmptyPool
    /\ req = [r \in Req |-> IdleReq]
    /\ ncalls = 0
    /\ padmin = [c \in Conns |-> NoAdminWrites]
    /\ registry = [code \in TenantCodes |-> "active"]
    /\ schemas = Tenants
    /\ tables = [t \in Tenants |-> BaseRelations]
    /\ prodattr \in {[t \in Tenants |-> IF t = "tenant_a" THEN a
                                         ELSE [p \in Products |-> DefaultAttr]] :
                         a \in [Products -> Attrs]}
    /\ insights = {}
    /\ sales = {}
    /\ pre = [r \in Req |-> Snapshot(r)]
    /\ http = NoRequest
    /\ resolved = Unresolved

NextInsights ==
    \/ \E t \in Tenants : StartGenerate(1, t)
    \/ GiRule(1)

SpecInsights == InitInsights /\ [][NextInsights]_vars

\* One sale at a time on tenant_a, of one or two detail lines on known and
\* unknown products.
SaleNumbers == {"V-1", "V-2"}

SubmittedDetails ==
    UNION {[1..n -> {Detail(p, q) : p \in ProductIds, q \in 1..(MaxQty + 1)}] :
               n \in 0..MaxItems}

NextSale ==
    \/ \E sale_number \in SaleNumbers, details \in SubmittedDetails :
          StartCreateSale(1, "tenant_a", sale_number, details)
    \/ ScBegin(1)
    \/ ScExisting(1)
    \/ ScValidate(1)
    \/ ScInsertSale(1)
    \/ ScDetail(1)
    \/ ScStock(1)
    \/ ScMovement(1)
    \/ ScCommit(1)
    \/ ScGetById(1)
    \/ ScRollback(1)

SpecSale == InitAmple /\ [][NextSale]_vars

\* The state after Sales.create, as call 1, has sold one unit of product 1
\* of tenant_a in sale 1.
SoldSale ==
    [schema |-> "tenant_a", id |-> 1, sale_number |-> "V-1",
     payment_status |-> "pendiente", details |-> <<Detail(1, 1)>>]

SoldMovement ==
    [id |-> 1, schema |-> "tenant_a", product_id |-> 1,
     movement_type |-> "salida", quantity |-> -1,
     previous_stock |-> InitialStock, new_stock |-> InitialStock - 1,
     reference_type |-> "venta", call |-> 1, cost_per_unit |-> NoCost]

InitSold ==
    /\ dbMax = MaxPool
    /\ stock = [t \in Tenants |-> [p \in Products |->
                   IF t = "tenant_a" /\ p = 1 THEN InitialStock - 1
                   ELSE InitialStock]]
    /\ movs = {SoldMovement}
    /\ nextId = 2
    /\ updSeen = {1}
    /\ ctx = [c \in Conns |-> "none"]
    /\ pstock = [c \in Conns |-> NoWrites]
    /\ pmovs = [c \in Conns |-> {}]
    /\ pool = EmptyPool
    /\ req = [r \in Req |-> IdleReq]
    /\ ncalls = 1
    /\ padmin = [c \in Conns |-> NoAdminWrites]
    /\ registry = [code \in TenantCodes |-> "active"]
    /\ schemas = Tenants
    /\ tables = [t \in Tenants |-> BaseRelations]
    /\ prodattr = [t \in Tenants |-> [p \in Products |-> DefaultAttr]]
    /\ insights = {}
    /\ sales = {SoldSale}
    /\ pre = [r \in Req |-> Snapshot(r)]
    /\ http = NoRequest
    /\ resolved = Unresolved

\* cancel requests for sale 1 and for a sale that does not exist, each on a
\* connection of its own
NextCancel ==
    \/ \E r \in {1, 2}, id \in {1, 2} :
          RouteCancelWithin(MaxBusyCalls, r, "tenant_a", id)
    \/ \E r \in {1, 2} : CaBegin(r)
    \/ \E r \in {1, 2} : CaGetById(r)
    \/ \E r \in {1, 2} : CaSelect(r)
    \/ \E r \in {1, 2} : CaStock(r)
    \/ \E r \in {1, 2} : CaMovement(r)
    \/ \E r \in {1, 2} : CaMark(r)
    \/ \E r \in {1, 2} : CaCommit(r)
    \/ \E r \in {1, 2} : CaRollback(r)

SpecCancel == InitSold /\ [][NextCancel]_vars

\* One operation at a time on tenant_a, of every kind that writes
\* current_stock: a movement, a sync, a sale, the cancel of a sale, and the
\* two writers of the Product model.
NextStockWriters ==
    \/ \E p \in {1, 3}, ty \in {"entrada", "salida", "ajuste"},
          q \in (-MaxQty)..MaxQty :
          StartAddMovement(1, "tenant_a", p, ty, q, "ajuste")
    \/ AmBegin(1)
    \/ AmSelect(1)
    \/ AmInsert(1)
    \/ AmUpdate(1)
    \/ AmCommit(1)
    \/ AmRollback(1)
    \/ \E items \in {b \in SyncBatches : Len(b) = 1} :
          StartSync(1, "tenant_a", items)
    \/ SyBegin(1)
    \/ SySelect(1)
    \/ SyInsert(1)
    \/ SyUpdate(1)
    \/ SyCommit(1)
    \/ \E details \in SubmittedDetails :
          StartCreateSale(1, "tenant_a", "V-1", details)
    \/ ScBegin(1)
    \/ ScExisting(1)
    \/ ScValidate(1)
    \/ ScInsertSale(1)
    \/ ScDetail(1)
    \/ ScStock(1)
    \/ ScMovement(1)
    \/ ScCommit(1)
    \/ ScGetById(1)
    \/ ScRollback(1)
    \/ \E id \in {1, 2} : RouteCancelWithin(MaxCalls, 1, "tenant_a", id)
    \/ CaBegin(1)
    \/ CaGetById(1)
    \/ CaSelect(1)
    \/ CaStock(1)
    \/ CaMovement(1)
    \/ CaMark(1)
    \/ CaCommit(1)
    \/ CaRollback(1)
    \/ \E id \in ProductIds, newStock \in 0..MaxQty :
          StartProductUpdate(1, id, newStock)
    \/ \E id \in ProductIds, newStock \in 0..MaxQty :
          StartProductUpdateStock(1, id, newStock)
    \/ ProductGetById(1)

SpecStockWriters == InitAmple /\ [][NextStockWriters]_vars

\* One request at a time through POST /api/inventory/movements: inbound,
\* outbound and adjustment movements of any size on a known and an unknown
\* product.
NextMovementRoute ==
    \/ \E p \in {1, 3}, ty \in {"entrada", "salida", "ajuste"},
          q \in (-(MaxQty + 1))..(MaxQty + 1) :
          RouteAddMovement(1, "tenant_a", p, ty, q, "ajuste")
    \/ AmBegin(1)
    \/ AmSelect(1)
    \/ AmInsert(1)
    \/ AmUpdate(1)
    \/ AmCommit(1)
    \/ AmRollback(1)

SpecMovementRoute == InitAmple /\ [][NextMovementRoute]_vars

\* A valuation of products with a movement history: product 1 of tenant a
\* was created with some stock and then received inbound and outbound
\* movements, each accepted by addMovement.
MovementEvent(movement_type, quantity, cost_per_unit) ==
    [movement_type |-> movement_type, quantity |-> quantity,
     cost_per_unit |-> cost_per_unit]

MovementEvents ==
    {MovementEvent("entrada", q, cost) :
        q \in 1..MaxQty, cost \in (1..MaxCost) \cup {NoCost}}
    \cup {MovementEvent("salida", q, NoCost) : q \in 1..MaxQty}

Histories == UNION {[1..n -> MovementEvents] : n \in 0..MaxMovements}

\* the stock after the first n movements of a history
RECURSIVE StockAfter(_, _, _)
StockAfter(s0, events, n) ==
    IF n = 0 THEN s0
    ELSE StockAfter(s0, events, n - 1)
            + StockChange(events[n].movement_type, events[n].quantity)

\* addMovement accepted every movement of the history
Accepted(s0, events) ==
    \A n \in 1..Len(events) :
        MovementError(events[n].movement_type, StockAfter(s0, events, n - 1),
                      events[n].quantity) = "none"

\* the rows the movements of a history left in inventory_movements
HistoryRows(t, p, s0, events) ==
    {[id |-> n, schema |-> t, product_id |-> p,
      movement_type |-> events[n].movement_type,
      quantity |-> StockChange(events[n].movement_type, events[n].quantity),
      previous_stock |-> StockAfter(s0, events, n - 1),
      new_stock |-> StockAfter(s0, events, n),
      reference_type |-> "ajuste", call |-> 0,
      cost_per_unit |-> events[n].cost_per_unit] : n \in 1..Len(events)}

InitValuationOf(histories, creationStocks) ==
    /\ dbMax = MaxPool
    /\ \E s0 \in creationStocks, events \in histories :
          /\ Accepted(s0, events)
          /\ stock = [t \in Tenants |-> [p \in Products |->
                         IF t = "tenant_a" /\ p = 1
                         THEN StockAfter(s0, events, Len(events))
                         ELSE InitialStock]]
          /\ movs = HistoryRows("tenant_a", 1, s0, events)
          /\ nextId = Len(events) + 1
    /\ updSeen = {}
    /\ ctx = [c \in Conns |-> "none"]
    /\ pstock = [c \in Conns |-> NoWrites]
    /\ pmovs = [c \in Conns |-> {}]
    /\ pool = EmptyPool
    /\ req = [r \in Req |-> IdleReq]
    /\ ncalls = 0
    /\ padmin = [c \in Conns |-> NoAdminWrites]
    /\ registry = [code \in TenantCodes |-> "active"]
    /\ schemas = Tenants
    /\ tables = [t \in Tenants |-> BaseRelations]
    /\ \E cost \in Costs :
          prodattr = [t \in Tenants |-> [p \in Products |->
                         WithCost(DefaultAttr, cost)]]
    /\ insights = {}
    /\ sales = {}
    /\ pre = [r \in Req |-> Snapshot(r)]
    /\ http = NoRequest
    /\ resolved = Unresolved

InitValuation == InitValuationOf(Histories, 0..MaxQty)

NextValuation ==
    \/ \E t \in Tenants, productId \in SubmittedProductIds :
          StartValuation(1, t, productId)
    \/ FvQuery(1)

SpecValuation == InitValuation /\ [][NextValuation]_vars

\* A valuation of a product created without stock whose history is one
\* inbound movement with a unit cost, followed by outbound movements.
SingleInboundHistories ==
    {<<MovementEvent("entrada", q, cost)>> \o outs :
        q \in 1..MaxQty, cost \in 1..MaxCost,
        outs \in UNION {[1..n -> {MovementEvent("salida", x, NoCost) :
                                     x \in 1..MaxQty}] :
                           n \in 0..(MaxMovements - 1)}}

InitSingleInbound == InitValuationOf(SingleInboundHistories, {0})

SpecSingleInbound == InitSingleInbound /\ [][NextValuation]_vars

\* One run of the rules on a tenant with a product out of stock, then
\* PATCH requests on the advisories.
InitLifecycle ==
    /\ InitInsights
    /\ stock["tenant_a"][1] = 0
    /\ prodattr["tenant_a"] = [p \in Products |-> ProductAttr(TRUE, 1, MaxQty + 1)]

NextLifecycle ==
    \/ StartGenerate(1, "tenant_a")
    \/ GiRule(1)
    \/ \E t \in Tenants, id \in SubmittedInsightIds, status \in SubmittedStatuses :
          StartUpdateStatusWithin(MaxBusyCalls, 1, t, id, status)
    \/ UsUpdate(1)

SpecLifecycle == InitLifecycle /\ [][NextLifecycle]_vars

\* The rules run on products of any stock, maximum threshold and cost.
PricedAttrs ==
    {WithCost(ProductAttr(active, 1, max), cost) :
        active \in BOOLEAN, max \in {1, MaxQty}, cost \in Costs}

InitOverstock ==
    /\ dbMax = MaxPool
    /\ stock \in {[t \in Tenants |-> IF t = "tenant_a" THEN st
                                      ELSE [p \in Products |-> InitialStock]] :
                      st \in [Products -> StockLevels]}
    /\ movs = {}
    /\ nextId = 1
    /\ updSeen = {}
    /\ ctx = [c \in Conns |-> "none"]
    /\ pstock = [c \in Conns |-> NoWrites]
    /\ pmovs = [c \in Conns |-> {}]
    /\ pool = EmptyPool
    /\ req = [r \in Req |-> IdleReq]
    /\ ncalls = 0
    /\ padmin = [c \in Conns |-> NoAdminWrites]
    /\ registry = [code \in TenantCodes |-> "active"]
    /\ schemas = Tenants
    /\ tables = [t \in Tenants |-> BaseRelations]
    /\ prodattr \in {[t \in Tenants |-> IF t = "tenant_a" THEN a
                                         ELSE [p \in Products |-> DefaultAttr]] :
                         a \in [Products -> PricedAttrs]}
    /\ insights = {}
    /\ sales = {}
    /\ pre = [r \in Req |-> Snapshot(r)]
    /\ http = NoRequest
    /\ resolved = Unresolved

SpecOverstock == InitOverstock /\ [][NextInsights]_vars

-----------------------------------------------------------------------------
(* Properties of the ledger *)

MovsOf(t, p) == {m \in movs : m.schema = t /\ m.product_id = p}

LatestOf(S) == CHOOSE m \in S : \A x \in S : x.id <= m.id

\* C1: for every product, current_stock equals the new_stock of its most
\* recently appended movement and equals its creation stock plus the sum of
\* the quantities of all its movements.
C1_BalanceMatchesLedger ==
    \A t \in Tenants, p \in Products :
        /\ MovsOf(t, p) # {} => stock[t][p] = LatestOf(MovsOf(t, p)).new_stock
        /\ stock[t][p] = InitialStock + SumQty(MovsOf(t, p))

\* C2: concurrent outbound movements never take more than the stock that was
\* available: the recorded outbound quantities never exceed the creation
\* stock plus the recorded inbound quantities, and the stock is never negative.
C2_NoOversell ==
    \A t \in Tenants, p \in Products :
        /\ stock[t][p] >= 0
        /\ InitialStock + SumQty(MovsOf(t, p)) >= 0

\* C3: the movement row of a call and its stock update are visible together
\* or not at all, and a call that failed left neither behind.
C3_MovementAtomic ==
    /\ \A k \in CallIds : (\E m \in movs : m.call = k) <=> (k \in updSeen)
    /\ \A r \in Req :
          (req[r].pc = "done" /\ req[r].err # "none") =>
              /\ ~(\E m \in movs : m.call = req[r].call)
              /\ req[r].call \notin updSeen

\* C4: an outbound movement whose quantity is greater than the stock of the
\* product never changes the stock or the movement rows, and ends with the
\* insufficient-stock error.
C4_OversizedOutboundRejected ==
    \A r \in Req :
        LET rq == req[r] IN
        (/\ rq.op = "addMovement" /\ rq.movement_type = "salida"
         /\ rq.product_id \in Products
         /\ rq.quantity > pre[r].stock[rq.tenantSchema][rq.product_id]) =>
            /\ stock = pre[r].stock
            /\ movs = pre[r].movs
            /\ rq.pc = "done" => rq.err = "insufficient"

C4_Witness ==
    /\ req[1].op = "addMovement" /\ req[1].pc = "done"
    /\ req[1].movement_type = "salida"
    /\ req[1].product_id \in Products
    /\ req[1].quantity > pre[1].stock[req[1].tenantSchema][req[1].product_id]
    /\ req[1].err = "insufficient"
    /\ pre[1].movs # {}

\* C5: the stock of a product is never negative.
C5_StockNeverNegative ==
    \A t \in Tenants, p \in Products : stock[t][p] >= 0

\* C6: every movement row has new_stock = previous_stock + quantity, an
\* inbound row has a quantity above zero and an outbound row one below zero.
C6_RowsWellFormed ==
    \A m \in movs :
        /\ m.new_stock = m.previous_stock + m.quantity
        /\ m.movement_type = "entrada" => m.quantity > 0
        /\ m.movement_type = "salida" => m.quantity < 0

\* C7: a step of an operation that was invoked with the schema of one tenant
\* leaves the stock and the movement rows of every other tenant unchanged.
C7_TenantIsolation ==
    [][\A r \in Req :
          req'[r] # req[r] =>
              \A t \in Tenants \ {req'[r].tenantSchema} :
                  /\ stock'[t] = stock[t]
                  /\ {m \in movs' : m.schema = t} = {m \in movs : m.schema = t}]_vars

\* the call that just ended in slot r is a sync with the entries of the sync
\* that ran right before it
SecondSync(r) ==
    /\ req[r].op = "syncInventory" /\ req[r].pc = "done" /\ req[r].err = "none"
    /\ pre[r].prevOp = "syncInventory"
    /\ pre[r].prevItems = req[r].items

DistinctProducts(items) ==
    \A i, j \in DOMAIN items : items[i].product_id = items[j].product_id => i = j

NoItemError(errors) ==
    \A i \in DOMAIN errors : errors[i].kind # "item_error"

FailsAlone(item) == item.product_id \notin Products \/ ~item.valid

\* C9: a sync reports exactly one error for every entry that fails, and
\* applies every other entry: the product holds the external stock of the
\* last such entry submitted for it.
C9_SyncBestEffort ==
    \A r \in Req :
        LET rq == req[r] IN
        (rq.op = "syncInventory" /\ rq.pc = "done" /\ rq.err = "none") =>
            /\ Len(rq.errors) =
                  Cardinality({i \in DOMAIN rq.items : FailsAlone(rq.items[i])})
            /\ \A i \in DOMAIN rq.items :
                  (/\ ~FailsAlone(rq.items[i])
                   /\ \A j \in DOMAIN rq.items :
                         (j > i /\ ~FailsAlone(rq.items[j])) =>
                             rq.items[j].product_id # rq.items[i].product_id) =>
                      stock[rq.tenantSchema][rq.items[i].product_id] =
                          rq.items[i].external_stock

-----------------------------------------------------------------------------
(* Properties of tenant resolution *)

RECURSIVE FirstNonEmpty(_)
FirstNonEmpty(signals) ==
    IF signals = <<>> THEN ""
    ELSE IF Head(signals) # "" THEN Head(signals)
    ELSE FirstNonEmpty(Tail(signals))

\* the tenant code carried by the subdomain of the host, "" when the host
\* is local, has a single label or starts with www or api
SubdomainSignal(rq) ==
    IF /\ Len(rq.hostname) >= 2
       /\ ~IsLoopbackAddress(rq.hostname)
       /\ rq.hostname[1] \notin {"", "www", "api"}
    THEN rq.hostname[1] ELSE ""

\* the tenant code carried by the URL path
PathSignal(rq) ==
    IF rq.paramsTenantCode # "" THEN rq.paramsTenantCode ELSE PathMatch(rq.path)

SignalsOf(rq) ==
    <<rq.xTenant, SubdomainSignal(rq), PathSignal(rq), rq.queryTenant>>

\* C10: the middleware resolves a request to the first non-empty signal in
\* the order header, subdomain, URL path, query parameter.
C10_FirstSignalWins ==
    resolved.pc # "new" => resolved.detected = FirstNonEmpty(SignalsOf(http))

WhitelistedPrefixes ==
    {<<"api", "health">>, <<"api", "system">>, <<"api", "admin">>,
     <<"api", "tenants">>, <<"favicon.ico">>}

IsPrefix(prefix, path) ==
    Len(prefix) <= Len(path) /\ SubSeq(path, 1, Len(prefix)) = prefix

OutsideWhitelist(path) == \A w \in WhitelistedPrefixes : ~IsPrefix(w, path)

NoTenantSignal(rq) == FirstNonEmpty(SignalsOf(rq)) = ""

\* C11: a request without any tenant signal for a path outside the
\* whitelisted prefixes is answered 400 TENANT_REQUIRED by the middleware and
\* reaches no handler; a tenant-scoped handler only ever runs with a tenant
\* schema on the request.
C11_TenantRequired ==
    /\ (/\ resolved.pc # "new"
        /\ NoTenantSignal(http)
        /\ OutsideWhitelist(http.path)) =>
           /\ resolved.pc = "responded"
           /\ resolved.status = 400
           /\ resolved.error = "TENANT_REQUIRED"
           /\ resolved.handler = "none"
    /\ resolved.handler = "tenant" =>
           /\ resolved.tenantCode # ""
           /\ resolved.tenantSchema # ""

C11_Witness ==
    /\ resolved.pc = "responded"
    /\ resolved.error = "TENANT_REQUIRED"
    /\ NoTenantSignal(http)
    /\ TenantScopedRoute(http.path)

NoActiveRecord(code) == code \notin TenantCodes \/ registry[code] # "active"

\* C12: when the middleware looks up a tenant code that has no active
\* registry record, never created or deactivated, it answers 404
\* TENANT_NOT_FOUND, and a request answered so reaches no handler.
C12_InactiveTenantRejected ==
    /\ [][(/\ resolved.pc = "getTenant"
           /\ resolved'.pc # "getTenant"
           /\ NoActiveRecord(resolved.detected)) =>
              /\ resolved'.pc = "responded"
              /\ resolved'.status = 404
              /\ resolved'.error = "TENANT_NOT_FOUND"]_vars
    /\ [](resolved.error = "TENANT_NOT_FOUND" => resolved.handler = "none")

C12_Witness ==
    /\ resolved.pc = "responded"
    /\ resolved.error = "TENANT_NOT_FOUND"
    /\ resolved.detected \in TenantCodes
    /\ registry[resolved.detected] = "inactive"
    /\ req[1].op = "deactivateTenant" /\ req[1].pc = "done"
    /\ req[1].result = "success"
    /\ req[1].tenant_code = resolved.detected
    /\ TenantScopedRoute(http.path)

\* C13: the middleware answers TENANT_SCHEMA_MISSING only for a tenant whose
\* registry record is active and whose partition really is absent.
C13_SchemaMissingOnlyWhenAbsent ==
    resolved.error = "TENANT_SCHEMA_MISSING" =>
        /\ resolved.detected \in TenantCodes
        /\ registry[resolved.detected] = "active"
        /\ SchemaName(resolved.detected) \notin schemas

\* C14: deleting a tenant removes its registry record and its partition
\* together or not at all: once no deleteTenant call is in progress, a
\* tenant has a record in the committed database exactly when it has a
\* partition.
C14_DeleteAtomic ==
    (\A r \in Req : req[r].op = "deleteTenant" => req[r].pc = "done") =>
        \A code \in TenantCodes :
            (registry[code] = "absent") <=> (SchemaName(code) \notin schemas)

\* the committed registry, schemas and tables are those the call found
CatalogUntouched(r) ==
    /\ registry = pre[r].registry
    /\ schemas = pre[r].schemas
    /\ tables = pre[r].tables

\* C15: createTenant with a code that has a registry record, active or
\* not, ends with TENANT_EXISTS, and with a code that does not match
\* ^[a-z0-9_]+$ it ends with the invalid-code error (INVALID_TENANT_CODE at
\* the route, the service's own error when called directly); in both cases
\* registry, schemas and tables stay as they were.
C15_CreateRejected ==
    \A r \in Req :
        LET code == req[r].tenant_code
            duplicate == code \in TenantCodes /\ pre[r].registry[code] # "absent"
            invalid == code # "" /\ ~IsValidTenantCode(code)
            finished == req[r].pc = "done" /\ req[r].result # "VALIDATION_ERROR"
        IN req[r].op = "createTenant" =>
              /\ (duplicate \/ ~IsValidTenantCode(code)) => CatalogUntouched(r)
              /\ (duplicate /\ finished) => req[r].result = "TENANT_EXISTS"
              /\ (invalid /\ finished) =>
                     \/ req[r].result = "INVALID_TENANT_CODE"
                     \/ /\ req[r].err = "invalid_code"
                        /\ req[r].result = "CREATE_TENANT_ERROR"

C15_Witness ==
    /\ req[1].op = "createTenant" /\ req[1].pc = "done"
    /\ req[1].tenant_code \in TenantCodes
    /\ pre[1].registry[req[1].tenant_code] = "inactive"
    /\ req[1].result = "TENANT_EXISTS"
\* the caller of deleteTenant has not confirmed the deletion
Unconfirmed(rq) ==
    IF rq.route THEN rq.confirm # "DELETE_EVERYTHING" ELSE ~rq.confirmDelete

\* C16: a delete without the confirmation ends at once with the
\* not-confirmed error (400 CONFIRMATION_REQUIRED at the route, the
\* service's own error when called directly), sends no statement, and
\* leaves registry, schemas and tables as they were.
C16_ConfirmationRequired ==
    \A r \in Req :
        (req[r].op = "deleteTenant" /\ Unconfirmed(req[r])) =>
            /\ req[r].pc = "done"
            /\ IF req[r].route THEN req[r].result = "CONFIRMATION_REQUIRED"
               ELSE req[r].err = "confirm"
            /\ CatalogUntouched(r)
            /\ \A c \in Conns : ctx[c] = "none" /\ padmin[c] = NoAdminWrites

C16_Witness ==
    /\ req[1].op = "deleteTenant" /\ req[1].route
    /\ req[1].confirm = "yes"
    /\ req[1].result = "CONFIRMATION_REQUIRED"
    /\ registry[req[1].tenant_code] = "active"
    /\ SchemaName(req[1].tenant_code) \in schemas

\* C17: provisioning a partition that already exists with its tables
\* succeeds and leaves its tables as they were: createTenant for a code that
\* has no registry record but whose schema is complete ends with the tenant
\* created.
C17_ProvisionIdempotent ==
    \A r \in Req :
        LET code == req[r].tenant_code IN
        (/\ req[r].op = "createTenant" /\ req[r].pc = "done"
         /\ req[r].result # "VALIDATION_ERROR"
         /\ code \in TenantCodes
         /\ pre[r].registry[code] = "absent"
         /\ SchemaName(code) \in pre[r].schemas
         /\ pre[r].tables[SchemaName(code)] = BaseRelations) =>
            /\ req[r].result = "created"
            /\ tables = pre[r].tables

\* the writes of a call that are committed, and those still pending
RowApplied(k) == \E row \in movs : row.call = k

StockApplied(k) == k \in updSeen

WritePending(k) ==
    \E c \in Conns :
        /\ ctx[c] = "open"
        /\ (\E row \in pmovs[c] : row.call = k) \/ k \in PendingCalls(c)

\* C18: once deleteTenant has returned success with the schema dropped, a
\* movement on that schema that began before it and has failed or is still
\* running has written nothing (it fails as a whole), and none of its
\* writes is still waiting to be applied.
C18_TeardownExcludesWrites ==
    \A d \in Req, m \in Req :
        (/\ req[d].op = "deleteTenant" /\ req[d].pc = "done"
         /\ req[d].result = "success"
         /\ SchemaName(req[d].tenant_code) \notin schemas
         /\ req[m].op = "addMovement"
         /\ req[m].tenantSchema = SchemaName(req[d].tenant_code)
         /\ req[m].call < req[d].call) =>
            /\ ~WritePending(req[m].call)
            /\ (req[m].pc # "done" \/ req[m].err # "none") =>
                   /\ ~RowApplied(req[m].call)
                   /\ ~StockApplied(req[m].call)

\* the advisories of a rule that are active in a schema
ActiveAdvisories(t, rule) ==
    {i \in insights : i.schema = t /\ i.rule = rule /\ i.status = "generated"}

\* C19: runs of the inventory rules that follow each other inside the
\* de-duplication window on unchanged products leave at most one active
\* advisory per rule and schema (no clock advances in these behaviours and
\* nothing changes the products, so every run is inside the window).
C19_OneAdvisoryPerRule ==
    \A t \in Tenants, k \in 1..Len(InventoryRules) :
        Cardinality(ActiveAdvisories(t, InventoryRules[k])) <= 1

\* the advisories a finished run has emitted for a rule
Emitted(r, rule) ==
    {i \in insights : i.call = req[r].call /\ i.rule = rule}

\* C20: a finished run emits at most one advisory per rule; the stockout
\* advisory exists exactly when an active product has current_stock = 0 and
\* is critical; the low-stock advisory exists exactly when an active product
\* has 0 < current_stock <= min_stock_threshold, is high, and lists no
\* product with stock 0 or with stock above its threshold.
C20_RulesFireExactly ==
    \A r \in Req :
        (req[r].op = "generateInventoryInsights" /\ req[r].pc = "done"
         /\ req[r].err = "none") =>
            LET t == req[r].tenantSchema
                none == {p \in Products :
                            prodattr[t][p].active /\ stock[t][p] = 0}
                low == {p \in Products :
                            /\ prodattr[t][p].active
                            /\ 0 < stock[t][p]
                            /\ stock[t][p] <= prodattr[t][p].min_stock_threshold}
            IN /\ \A k \in 1..Len(InventoryRules) :
                      Cardinality(Emitted(r, InventoryRules[k])) <= 1
               /\ (Emitted(r, "out_of_stock") # {}) <=> (none # {})
               /\ \A i \in Emitted(r, "out_of_stock") :
                      i.priority = "critical" /\ i.product_list = none
               /\ (Emitted(r, "low_stock") # {}) <=> (low # {})
               /\ \A i \in Emitted(r, "low_stock") :
                      i.priority = "high" /\ i.product_list = low

C20_Witness ==
    /\ req[1].op = "generateInventoryInsights" /\ req[1].pc = "done"
    /\ req[1].tenantSchema = "tenant_a"
    /\ Emitted(1, "out_of_stock") # {}
    /\ Emitted(1, "low_stock") = {}
    /\ \E p \in Products : stock["tenant_a"][p] = 0 /\ prodattr["tenant_a"][p].active
    /\ \E p \in Products :
          /\ prodattr["tenant_a"][p].active
          /\ stock["tenant_a"][p] > prodattr["tenant_a"][p].min_stock_threshold


\* the capital tied up in the units above the maximum threshold
TiedCapitalOfExcess(st, a) == (st - a.max_stock_threshold) * a.cost_price

\* C21: a finished run emits the overstock advisory exactly when an active
\* product has current_stock > max_stock_threshold, with priority medium;
\* the capital it reports for a listed product is
\* (current_stock - max_stock_threshold) * cost_price and its total is the
\* sum of these.
C21_OverstockTiedCapital ==
    \A r \in Req :
        (req[r].op = "generateInventoryInsights" /\ req[r].pc = "done"
         /\ req[r].err = "none") =>
            LET t == req[r].tenantSchema
                over == {p \in Products :
                            /\ prodattr[t][p].active
                            /\ stock[t][p] > prodattr[t][p].max_stock_threshold}
                excess == [p \in over |->
                              TiedCapitalOfExcess(stock[t][p], prodattr[t][p])]
            IN /\ (Emitted(r, "over_stock") # {}) <=> (over # {})
               /\ \A i \in Emitted(r, "over_stock") :
                      /\ i.priority = "medium"
                      /\ i.product_list = over
                      /\ \A p \in over : i.details[p].tied_capital = excess[p]
                      /\ i.tied_capital = TotalTiedCapital(excess)


\* the place of a status in generated -> sent -> read -> acted
Stage(status) ==
    CASE status = "generated" -> 1 [] status = "sent" -> 2
      [] status = "read" -> 3 [] status = "acted" -> 4 [] OTHER -> 5

\* a change of status the lifecycle allows: forward along
\* generated -> sent -> read -> acted, or to dismissed
LifecycleMove(from, to) ==
    \/ to = from
    \/ to = "dismissed"
    \/ from # "dismissed" /\ to \in Lifecycle /\ Stage(from) < Stage(to)

\* C22: the status of every stored insight is one of generated, sent, read,
\* acted, dismissed; a step changes the status of an insight only forward
\* along generated -> sent -> read -> acted or to dismissed, and changes no
\* other field of it.
C22_StatusLifecycle ==
    /\ [](\A i \in insights : i.status \in Lifecycle)
    /\ [][\A i \in insights :
            (\E j \in insights' : j.schema = i.schema /\ InsightId(j) = InsightId(i)) =>
                \E j \in insights' :
                    /\ j = [i EXCEPT !.status = j.status]
                    /\ LifecycleMove(i.status, j.status)]_vars


\* the inbound rows of a set, newest first
RECURSIVE NewestFirst(_)
NewestFirst(L) ==
    IF L = {} THEN <<>>
    ELSE LET m == CHOOSE x \in L : \A y \in L : y.id <= x.id
         IN <<m>> \o NewestFirst(L \ {m})

Min(a, b) == IF a < b THEN a ELSE b

\* walking the layers from newest to oldest, each contributes
\* min(layer quantity, units still uncovered) * layer unit cost
RECURSIVE CoverFrom(_, _, _)
CoverFrom(layers, uncovered, cost_price) ==
    IF layers = <<>> \/ uncovered = 0 THEN 0
    ELSE LET m == Head(layers)
             take == Min(m.quantity, uncovered)
         IN take * LayerCost(m, cost_price)
              + CoverFrom(Tail(layers), uncovered - take, cost_price)

\* a finished valuation and a product it lists
Valued(r, p) ==
    /\ req[r].op = "getFIFOValuation" /\ req[r].pc = "done"
    /\ req[r].result = "success"
    /\ p \in DOMAIN req[r].rows

\* C23: when the inbound movements of a product cover its current_stock,
\* its fifo_valuation is the sum, over the inbound layers from newest to
\* oldest, of min(layer quantity, units still uncovered) * layer unit cost.
C23_FifoNewestLayers ==
    \A r \in Req, p \in Products :
        LET t == req[r].tenantSchema
            L == InboundRows(movs, t, p)
        IN (Valued(r, p) /\ SumAbsQty(L) >= stock[t][p]) =>
              req[r].rows[p].fifo_valuation =
                  CoverFrom(NewestFirst(L), stock[t][p], prodattr[t][p].cost_price)


\* C24: when the inbound movements of a product add up to less than its
\* current_stock (none at all, or a part only), its fifo_valuation is
\* current_stock * cost_price.
C24_FifoFallback ==
    \A r \in Req, p \in Products :
        LET t == req[r].tenantSchema
            L == InboundRows(movs, t, p)
        IN (Valued(r, p) /\ SumAbsQty(L) < stock[t][p]) =>
              req[r].rows[p].fifo_valuation =
                  stock[t][p] * prodattr[t][p].cost_price

\* the whole stock of the product came from one inbound movement with a
\* unit cost: its other movements are outbound and its stock is what they
\* left of the inbound quantity
SingleInbound(t, p) ==
    LET L == InboundRows(movs, t, p) IN
    /\ Cardinality(L) = 1
    /\ \A m \in L : m.cost_per_unit # NoCost
    /\ \A m \in MovsOf(t, p) \ L : m.movement_type = "salida"
    /\ stock[t][p] = SumQty(MovsOf(t, p))

\* C25: for a product whose whole stock came from one inbound movement of
\* unit cost c, followed or not by outbound movements, fifo_valuation is
\* current_stock * c.
C25_SingleInboundValue ==
    \A r \in Req, p \in Products :
        LET t == req[r].tenantSchema IN
        (Valued(r, p) /\ SingleInbound(t, p)) =>
            \A m \in InboundRows(movs, t, p) :
                req[r].rows[p].fifo_valuation = stock[t][p] * m.cost_per_unit

C25_Witness ==
    /\ Valued(1, 1) /\ req[1].tenantSchema = "tenant_a"
    /\ SingleInbound("tenant_a", 1)
    /\ \E m \in MovsOf("tenant_a", 1) : m.movement_type = "salida"
    /\ stock["tenant_a"][1] > 0
    /\ \A m \in InboundRows(movs, "tenant_a", 1) :
          /\ m.cost_per_unit # prodattr["tenant_a"][1].cost_price
          /\ req[1].rows[1].fifo_valuation = stock["tenant_a"][1] * m.cost_per_unit


\* C26: POST /movements answers 400 INSUFFICIENT_STOCK to every movement
\* rejected for insufficient stock, an outbound one or an adjustment whose
\* result would be negative, and 404 PRODUCT_NOT_FOUND to an unknown
\* product.
C26_RejectionsAnswered ==
    \A r \in Req :
        LET rq == req[r] IN
        (rq.op = "addMovement" /\ rq.route /\ rq.pc = "done") =>
            /\ rq.err \in {"insufficient", "negative_adjust"} =>
                   rq.httpStatus = 400 /\ rq.result = "INSUFFICIENT_STOCK"
            /\ rq.err = "not_found" =>
                   rq.httpStatus = 404 /\ rq.result = "PRODUCT_NOT_FOUND"


\* the units of a product the detail lines of a sale ask for
RECURSIVE Ordered(_, _)
Ordered(details, p) ==
    IF details = <<>> THEN 0
    ELSE (IF Head(details).product_id = p THEN Head(details).quantity ELSE 0)
            + Ordered(Tail(details), p)

\* C28: after a Sales.create that succeeded, the stock of every product is
\* its stock before the sale minus the quantities of all detail lines of the
\* sale for it; a sale whose lines ask for more of a product than its stock
\* before the sale ends with the insufficient-stock error.
C28_SaleTakesOrderedUnits ==
    \A r \in Req :
        LET rq == req[r]
            t == rq.tenantSchema
        IN (rq.op = "createSale" /\ rq.pc = "done") =>
              /\ rq.err = "none" =>
                     \A p \in Products :
                         stock[t][p] = pre[r].stock[t][p] - Ordered(rq.details, p)
              /\ ( /\ \A i \in DOMAIN rq.details :
                         rq.details[i].product_id \in Products
                   /\ rq.err # "duplicate"
                   /\ \E p \in Products :
                         Ordered(rq.details, p) > pre[r].stock[t][p] ) =>
                     rq.err = "insufficient"


\* the rows Sales.cancel has added for a product: inbound, referenced 'sync'
Reversals(t, p) ==
    {m \in movs : /\ m.schema = t /\ m.product_id = p
                  /\ m.movement_type = "entrada" /\ m.reference_type = "sync"}

\* C27: a cancel of a sale that is cancelled is answered with
\* SALE_ALREADY_CANCELLED and changes nothing; whatever cancel calls on sale 1
\* have run, at most one reversal row exists for its detail line and its
\* product, which nothing else moves, has got the sold unit back at most once.
C27_CancelRestoresOnce ==
    /\ \A r \in Req :
          (/\ req[r].op = "cancelSale" /\ req[r].pc = "done"
           /\ \E s \in pre[r].sales : s.id = req[r].saleId
                                        /\ s.payment_status = "cancelado") =>
              /\ req[r].result = "SALE_ALREADY_CANCELLED"
              /\ stock = pre[r].stock /\ movs = pre[r].movs
    /\ Cardinality(Reversals("tenant_a", 1)) <= 1
    /\ stock["tenant_a"][1] <= InitialStock


\* the quantities of a set of movement rows, added up
RECURSIVE SumQuantity(_)
SumQuantity(rows) ==
    IF rows = {} THEN 0
    ELSE LET m == CHOOSE x \in rows : TRUE
         IN m.quantity + SumQuantity(rows \ {m})

\* the rows an operation has appended for a product
Appended(r, t, p) ==
    {m \in movs \ pre[r].movs : m.schema = t /\ m.product_id = p}

\* C29: when an operation has ended, whatever it changed of a product's
\* current_stock is the quantity of the movement rows it appended for that
\* product; a stock that changed has a row.
C29_StockChangeHasMovement ==
    \A r \in Req :
        (req[r].op # "none" /\ req[r].pc = "done") =>
            \A t \in Tenants, p \in Products :
                stock[t][p] - pre[r].stock[t][p] = SumQuantity(Appended(r, t, p))


\* C30: a createTenant that has failed for a code that had no registry
\* record leaves no registry record for that code.
C30_FailedCreateLeavesNoRecord ==
    \A r \in Req :
        LET rq == req[r] IN
        (/\ rq.op = "createTenant" /\ rq.pc = "done"
         /\ rq.result = "CREATE_TENANT_ERROR"
         /\ rq.tenant_code \in TenantCodes
         /\ pre[r].registry[rq.tenant_code] = "absent") =>
            registry[rq.tenant_code] = "absent"

====
